---- MODULE Spec2Model ----
(***************************************************************************)
(* Battle simulation of cyber_top: the fixed-tick pipeline of GamePlugin   *)
(* (zones, integration, wall/obstacle reflection, collision detection,     *)
(* event generation, event application, cleanup) over the two tops that    *)
(* setup_arena spawns, plus the stat resolver and the control-state        *)
(* machine.                                                                *)
(*                                                                         *)
(* Numbers.  Every f32/f64 of the program is a fixed-point integer: the    *)
(* real v is the integer v * FP.  Products and quotients are rounded to    *)
(* the nearest unit (f32 rounds to nearest as well, at a finer grain).     *)
(* A 2D vector (Vec2) is a pair <<x, y>>.                                  *)
(***************************************************************************)
EXTENDS Integers, Sequences, FiniteSets, TLC

\* ---------------------------------------------------------------- numbers

\* Units per 1.0 of an f32 value.
FP == 600

Abs(a) == IF a < 0 THEN -a ELSE a
Max(a, b) == IF a >= b THEN a ELSE b
Min(a, b) == IF a <= b THEN a ELSE b
Clamp(v, lo, hi) == Min(Max(v, lo), hi)

\* a / b rounded to the nearest integer (b > 0), symmetric in the sign of a.
RDiv(a, b) == IF a >= 0 THEN (2 * a + b) \div (2 * b)
                        ELSE -((2 * (-a) + b) \div (2 * b))

\* f32 product and quotient of two fixed-point values.
MulFP(a, b) == RDiv(a * b, FP)
DivFP(a, b) == IF b > 0 THEN RDiv(a * FP, b) ELSE -RDiv(a * FP, -b)

RECURSIVE SqrtSearch(_, _, _)
SqrtSearch(n, lo, hi) ==
  IF lo >= hi THEN lo
  ELSE LET mid == (lo + hi + 1) \div 2
       IN  IF mid * mid <= n THEN SqrtSearch(n, mid, hi)
                             ELSE SqrtSearch(n, lo, mid - 1)

\* Integer square root (floor) of n >= 0, by bisection below 2^15.5.
ISqrt(n) == SqrtSearch(n, 0, Min(n, 46340))

\* ---------------------------------------------------------------- Vec2

VX(v) == v[1]
VY(v) == v[2]
ZERO == <<0, 0>>
VAdd(a, b) == <<a[1] + b[1], a[2] + b[2]>>
VSub(a, b) == <<a[1] - b[1], a[2] - b[2]>>
VNeg(a) == <<-a[1], -a[2]>>
\* Vec2 * f32 and Vec2 / f32
VScale(a, k) == <<MulFP(a[1], k), MulFP(a[2], k)>>
VDivS(a, k) == <<DivFP(a[1], k), DivFP(a[2], k)>>
\* Vec2::dot of two fixed-point vectors (a fixed-point value)
Dot(a, b) == RDiv(a[1] * b[1] + a[2] * b[2], FP)
LengthSquaredRaw(a) == a[1] * a[1] + a[2] * a[2]
\* Vec2::length and Vec2::distance
Length(a) == ISqrt(LengthSquaredRaw(a))
Distance(a, b) == Length(VSub(a, b))

\* ---------------------------------------------------------------- angles

\* std::f32::consts::PI, FRAC_PI_2, FRAC_PI_4, TAU in fixed point.
PI_FP == 1885
FRAC_PI_2_FP == 942
FRAC_PI_4_FP == 471
TAU_FP == 3770

\* f32::rem_euclid(TAU)
RemEuclidTau(a) == a % TAU_FP

\* Taylor series on [0, pi/4].
CosSeries(x) ==
  LET x2 == MulFP(x, x)
      x4 == MulFP(x2, x2)
      x6 == MulFP(x4, x2)
  IN  FP - RDiv(x2, 2) + RDiv(x4, 24) - RDiv(x6, 720)

SinSeries(x) ==
  LET x2 == MulFP(x, x)
      x3 == MulFP(x2, x)
      x5 == MulFP(x3, x2)
      x7 == MulFP(x5, x2)
  IN  x - RDiv(x3, 6) + RDiv(x5, 120) - RDiv(x7, 5040)

\* cos and sin on the first quadrant [0, pi/2].
CosQ(x) == IF x <= FRAC_PI_4_FP THEN CosSeries(x)
           ELSE SinSeries(Max(FRAC_PI_2_FP - x, 0))
SinQ(x) == IF x <= FRAC_PI_4_FP THEN SinSeries(x)
           ELSE CosSeries(Max(FRAC_PI_2_FP - x, 0))

\* f32::cos and f32::sin of any angle.
Cos(a) ==
  LET r == RemEuclidTau(a)
  IN  IF r <= FRAC_PI_2_FP THEN CosQ(r)
      ELSE IF r <= PI_FP THEN -CosQ(Min(PI_FP - r, FRAC_PI_2_FP))
      ELSE IF r <= PI_FP + FRAC_PI_2_FP THEN -CosQ(Min(r - PI_FP, FRAC_PI_2_FP))
      ELSE CosQ(Min(TAU_FP - r, FRAC_PI_2_FP))

Sin(a) ==
  LET r == RemEuclidTau(a)
  IN  IF r <= FRAC_PI_2_FP THEN SinQ(r)
      ELSE IF r <= PI_FP THEN SinQ(Min(PI_FP - r, FRAC_PI_2_FP))
      ELSE IF r <= PI_FP + FRAC_PI_2_FP THEN -SinQ(Min(r - PI_FP, FRAC_PI_2_FP))
      ELSE -SinQ(Min(TAU_FP - r, FRAC_PI_2_FP))

\* Vec2::new(angle.cos(), angle.sin())
DirOf(a) == <<Cos(a), Sin(a)>>

\* ---------------------------------------------------------------- Tuning

\* Tuning::default(), in fixed point.
dt == 10
arena_radius == 7200
wall_bounce_damping == 600
top_collisions_restitution == 600
tuning_spin_drain_idle_per_sec == 120
tuning_spin_drain_on_wall_hit == 300
tuning_spin_drain_on_top_hit == 600
collision_damage_k == 300
wall_damage_k == 180
max_speed == 18000
melee_speed_scale_k == 0
obstacle_damage == 1200
input_accel == 15000
\* game::map::GRID_CELL_SIZE
GRID_CELL_SIZE == 300

\* Option: None and Some(x), and Option::unwrap
None == <<>>
Some(x) == <<x>>
Unwrap(o) == o[1]
\* NextState::Unchanged
Unchanged == "Unchanged"

\* ---------------------------------------------------------------- newtypes

\* SpinHp::new
SpinHpNew(v) == Max(v, 0)
\* Deviation: the subtraction without the floor at 0.
sub_unclamped(hp, delta) == hp - delta
\* SpinHp::sub_clamped
sub_clamped(hp, delta) == Max(hp - delta, 0)
\* SpinHp::is_alive
is_alive(hp) == hp > 0

\* Deviation: the decrement without the floor at 0.
dec_unclamped(s, d) == s - d
\* Seconds::new, Seconds::dec, Seconds::is_expired
SecondsNew(v) == Max(v, 0)
dec(s, d) == Max(s - d, 0)
is_expired(s) == s <= 0

\* Multiplier::MAX, Multiplier::new, Multiplier::one, Mul for Multiplier
MultiplierMAX == 6000
MultiplierNew(v) == Clamp(v, 0, MultiplierMAX)
MultiplierOne == FP
MultiplierMul(a, b) == MultiplierNew(MulFP(a, b))

\* AngleRad::new, AngleRad::advance
AngleRadNew(v) == RemEuclidTau(v)
advance(a, delta) == AngleRadNew(a + delta)

\* ControlEffect::apply_reduction
apply_reduction(control, m) ==
  LET mm == Max(m, 0)
  IN  CASE control.kind = "Stun" ->
             [kind |-> "Stun", duration |-> SecondsNew(MulFP(control.duration, mm)),
              ratio |-> 0, distance |-> 0]
        [] control.kind = "Slow" ->
             [kind |-> "Slow", duration |-> SecondsNew(MulFP(control.duration, mm)),
              ratio |-> control.ratio, distance |-> 0]
        [] OTHER ->
             [kind |-> "Knockback", duration |-> 0, ratio |-> 0,
              distance |-> MulFP(control.distance, mm)]

Stun(d) == [kind |-> "Stun", duration |-> d, ratio |-> 0, distance |-> 0]
Slow(d, r) == [kind |-> "Slow", duration |-> d, ratio |-> r, distance |-> 0]
Knockback(x) == [kind |-> "Knockback", duration |-> 0, ratio |-> 0, distance |-> x]

\* ---------------------------------------------------------------- modifiers

\* StatModifier::identity
StatModifierIdentity == [add |-> 0, mul |-> FP, clamp_min |-> None, clamp_max |-> None]

\* f32::NAN, the value str::parse::<f32> gives for the text "NaN": no number,
\* kept apart from every number the model computes with.
NaN == -2000000000
\* f32::max and f32::min return the other operand when one is NaN; f32::clamp
\* returns NaN when the value is NaN.
MaxF32(a, b) == IF a = NaN THEN b ELSE IF b = NaN THEN a ELSE Max(a, b)
MinF32(a, b) == IF a = NaN THEN b ELSE IF b = NaN THEN a ELSE Min(a, b)
ClampF32(v, lo, hi) == IF v = NaN THEN NaN ELSE Clamp(v, lo, hi)

\* StatModifier::apply
StatModifierApply(m, base) ==
  LET v0 == IF base = NaN \/ m.add = NaN \/ m.mul = NaN THEN NaN
            ELSE MulFP(base + m.add, m.mul)
      v1 == IF m.clamp_min # None THEN MaxF32(v0, Unwrap(m.clamp_min)) ELSE v0
  IN  IF m.clamp_max # None THEN MinF32(v1, Unwrap(m.clamp_max)) ELSE v1

\* ModifierSet::new
ModifierSetNew ==
  [spin_hp_max |-> StatModifierIdentity, radius |-> StatModifierIdentity,
   move_speed |-> StatModifierIdentity, accel |-> StatModifierIdentity,
   control_reduction_sources |-> <<>>,
   stability |-> StatModifierIdentity, spin_efficiency |-> StatModifierIdentity,
   damage_out_mult |-> MultiplierOne, damage_in_mult |-> MultiplierOne,
   fire_rate_mult |-> MultiplierOne]

MergeStat(a, b) == [a EXCEPT !.add = a.add + b.add, !.mul = MulFP(a.mul, b.mul)]

\* ModifierSet::merge
merge(self, other) ==
  [spin_hp_max |-> MergeStat(self.spin_hp_max, other.spin_hp_max),
   radius |-> MergeStat(self.radius, other.radius),
   move_speed |-> MergeStat(self.move_speed, other.move_speed),
   accel |-> MergeStat(self.accel, other.accel),
   control_reduction_sources |->
       self.control_reduction_sources \o other.control_reduction_sources,
   stability |-> MergeStat(self.stability, other.stability),
   spin_efficiency |-> MergeStat(self.spin_efficiency, other.spin_efficiency),
   damage_out_mult |-> MultiplierMul(self.damage_out_mult, other.damage_out_mult),
   damage_in_mult |-> MultiplierMul(self.damage_in_mult, other.damage_in_mult),
   fire_rate_mult |-> MultiplierMul(self.fire_rate_mult, other.fire_rate_mult)]

\* ShaftSpec::to_modifiers
ShaftToModifiers(shaft) ==
  [ModifierSetNew EXCEPT !.stability.add = shaft.stability,
                         !.spin_efficiency.mul = shaft.spin_efficiency]

\* ChassisSpec::to_modifiers
ChassisToModifiers(ch) ==
  [ModifierSetNew EXCEPT !.move_speed.add = ch.move_speed_add,
                         !.move_speed.mul = ch.move_speed_mul,
                         !.accel.add = ch.accel_add,
                         !.accel.mul = ch.accel_mul,
                         !.radius.add = ch.radius_add,
                         !.radius.mul = ch.radius_mul]

\* TraitScrewSpec::to_modifiers
ScrewToModifiers(screw) ==
  [ModifierSetNew EXCEPT
     !.spin_hp_max.add = screw.spin_hp_max_add,
     !.control_reduction_sources =
        IF screw.control_reduction # 0 THEN <<screw.control_reduction>> ELSE <<>>,
     !.damage_out_mult = MultiplierNew(screw.damage_out_mult),
     !.damage_in_mult = MultiplierNew(screw.damage_in_mult)]

\* Build::combined_modifiers
combined_modifiers(build) ==
  merge(merge(merge(ModifierSetNew, ShaftToModifiers(build.shaft)),
              ChassisToModifiers(build.chassis)),
        ScrewToModifiers(build.screw))

RECURSIVE CombinedRatio(_, _)
\* the loop `combined *= 1.0 + r` over control_reduction_sources
CombinedRatio(sources, acc) ==
  IF sources = <<>> THEN acc
  ELSE CombinedRatio(Tail(sources), MulFP(acc, FP + Head(sources)))

\* Deviation: the reductions add up, and the result is not floored.
ControlMultiplierAdditive(sources, base_control_reduction) ==
  FP - (CombinedRatio(sources, FP) - FP) - base_control_reduction

\* the control_multiplier of ModifierSet::compute_effective
ControlMultiplier(sources, base_control_reduction) ==
  LET combined == MulFP(CombinedRatio(sources, FP), FP + base_control_reduction)
      big_r == combined - FP
  IN  Max(FP - big_r, 0)

\* f32 division by a spin efficiency in [0, 10]; x / 0.0 is +inf for x > 0,
\* kept as the largest drain a tick can apply.
INF == 20000000
DivOrInf(a, b) == IF b = 0 THEN INF ELSE DivFP(a, b)

\* ModifierSet::compute_effective
compute_effective(self, base) ==
  [spin_hp_max |-> MaxF32(StatModifierApply(self.spin_hp_max, base.spin_hp_max), 0),
   radius |-> MaxF32(StatModifierApply(self.radius, base.radius), 6),
   move_speed |-> ClampF32(StatModifierApply(self.move_speed, base.move_speed), 0, max_speed),
   accel |-> MaxF32(StatModifierApply(self.accel, base.accel), 0),
   control_multiplier |->
       ControlMultiplier(self.control_reduction_sources, base.control_reduction),
   spin_drain_idle_per_sec |->
       DivOrInf(tuning_spin_drain_idle_per_sec,
                Clamp(StatModifierApply(self.spin_efficiency, FP), 0, 10 * FP)),
   spin_drain_on_wall_hit |-> tuning_spin_drain_on_wall_hit,
   spin_drain_on_top_hit |-> tuning_spin_drain_on_top_hit,
   stability |-> MaxF32(StatModifierApply(self.stability, 0), 0),
   damage_out_mult |-> self.damage_out_mult,
   damage_in_mult |-> self.damage_in_mult,
   fire_rate_mult |-> self.fire_rate_mult]

\* ---------------------------------------------------------------- parts

\* BaseStats::default
DefaultTop == [spin_hp_max |-> 100 * FP, radius |-> 780, move_speed |-> 10 * FP,
               accel |-> 25 * FP, control_reduction |-> 0]
\* ShaftSpec::default, ChassisSpec::default, TraitScrewSpec::default
DefaultShaft == [stability |-> 300, spin_efficiency |-> FP]
DefaultChassis == [move_speed_add |-> 0, move_speed_mul |-> FP, accel_add |-> 0,
                   accel_mul |-> FP, radius_add |-> 0, radius_mul |-> FP]
DefaultScrew == [spin_hp_max_add |-> 0, control_reduction |-> 0,
                 damage_out_mult |-> FP, damage_in_mult |-> FP]
\* MeleeSpec::default (FRAC_PI_3 = 628) and RangedSpec::default
DefaultMelee == [base_damage |-> 3300, hit_cooldown |-> 300, hitbox_radius |-> 1500,
                 hitbox_angle |-> 628, hit_control |-> None]
DefaultRanged == [projectile_damage |-> 4200, fire_rate |-> 1800, burst_count |-> 1,
                  spread_angle |-> 0, projectile_radius |-> 180, lifetime |-> 1200,
                  projectile_speed |-> 9000]
\* the weapons of PartRegistry::with_defaults
BasicBlade == [melee |-> Some(DefaultMelee), ranged |-> None]
BasicBlaster == [melee |-> None, ranged |-> Some(DefaultRanged)]

\* PartRegistry::with_defaults: the builds "default_blade" and "default_blaster"
DefaultBladeBuild == [top |-> DefaultTop, weapon |-> BasicBlade, shaft |-> DefaultShaft,
                      chassis |-> DefaultChassis, screw |-> DefaultScrew]
DefaultBlasterBuild == [DefaultBladeBuild EXCEPT !.weapon = BasicBlaster]

\* Custom parts (PartRegistry::merge_custom_parts reads any top, weapon, shaft,
\* chassis and screw from the database).
\* A heavy, slow brawler whose wide blade stuns, with control reduction.
BrawlerBuild ==
  [top |-> [DefaultTop EXCEPT !.spin_hp_max = 20 * FP, !.move_speed = 6 * FP,
                              !.control_reduction = 60],
   weapon |-> [melee |-> Some([DefaultMelee EXCEPT !.hit_cooldown = 60,
                                                  !.hitbox_angle = 2 * TAU_FP,
                                                  !.hit_control = Some(Stun(120))]),
               ranged |-> None],
   shaft |-> [stability |-> 3 * FP, spin_efficiency |-> 300],
   chassis |-> [DefaultChassis EXCEPT !.radius_add = 120],
   screw |-> [DefaultScrew EXCEPT !.control_reduction = 120, !.damage_out_mult = 900]]
\* A light, fast, fragile top with a fan of three slow-hitting shots.
ScoutBuild ==
  [top |-> [DefaultTop EXCEPT !.spin_hp_max = 6 * FP, !.move_speed = 12 * FP],
   weapon |-> [melee |-> None,
               ranged |-> Some([DefaultRanged EXCEPT !.burst_count = 3, !.spread_angle = 628,
                                                     !.fire_rate = 6 * FP, !.lifetime = 150,
                                                     !.projectile_speed = 18000,
                                                     !.projectile_radius = 300])],
   shaft |-> [stability |-> 0, spin_efficiency |-> FP],
   chassis |-> [DefaultChassis EXCEPT !.move_speed_mul = 900],
   screw |-> [DefaultScrew EXCEPT !.damage_in_mult = 1200, !.spin_hp_max_add = -1200]]
\* The brawler with a blade that knocks back by 1 in place of the stun.
PusherBuild ==
  [BrawlerBuild EXCEPT
     !.weapon.melee = Some([Unwrap(BrawlerBuild.weapon.melee) EXCEPT
                              !.hit_control = Some(Knockback(FP))])]
\* The default blaster with a spread angle set for its single shot.
LoneSpreadBuild ==
  [DefaultBlasterBuild EXCEPT
     !.weapon.ranged = Some([DefaultRanged EXCEPT !.spread_angle = 628])]
\* A stationary turret (move speed 0) with a slowing blade and a blaster, whose
\* blade heals on paper (negative base damage) and never cools down.
TurretBuild ==
  [top |-> [DefaultTop EXCEPT !.spin_hp_max = 8 * FP],
   weapon |-> [melee |-> Some([DefaultMelee EXCEPT !.base_damage = -600, !.hit_cooldown = 0,
                                                  !.hitbox_radius = 3000,
                                                  !.hitbox_angle = 2 * TAU_FP,
                                                  !.hit_control = Some(Slow(240, 300))]),
               ranged |-> Some([DefaultRanged EXCEPT !.projectile_speed = 18000,
                                                     !.lifetime = 40])],
   shaft |-> DefaultShaft,
   chassis |-> [DefaultChassis EXCEPT !.move_speed_mul = 0],
   screw |-> DefaultScrew]

\* ---------------------------------------------------------------- maps

\* MapSpec::default_arena
DefaultArena == [arena_radius |-> 12 * FP, placements |-> <<>>]
\* A custom map of the smallest radius the editor allows, with one item of
\* every kind on the line between the two spawn points.
SmallArena ==
  [arena_radius |-> 6 * FP,
   placements |-> << [grid_x |-> 0, grid_y |-> 0, item |-> "Obstacle"],
                     [grid_x |-> -4, grid_y |-> 0, item |-> "DamageBoost"],
                     [grid_x |-> 4, grid_y |-> 1, item |-> "SpeedBoost"],
                     [grid_x |-> 0, grid_y |-> 6, item |-> "GravityDevice"] >>]

\* ---------------------------------------------------------------- state

\* Fixed ticks explored from the start of the battle.
MaxTicks == 36

VARIABLES
  phase,        \* State<GamePhase>
  next_state,   \* NextState<GamePhase>: the pending transition, or Unchanged
  frame,        \* the schedule of the frame that runs next
  pc,           \* 0 between ticks, else the index in Schedule of the next system
  now,          \* Time<Fixed>::elapsed_secs_f64
  arena_r,      \* the ArenaRadius resource
  stats,        \* TopEffectiveStats of each top
  build,        \* TopBuild of each top
  tops,         \* the mutable components of each top
  projectiles,  \* the entities with ProjectileMarker, in spawn order
  obstacles,    \* the entities with ObstacleMarker
  zones,        \* GravityDevice, SpeedBoostZone and DamageBoostZone entities
  next_entity,  \* the identity the next spawned entity gets
  events,       \* Messages<GameEvent>
  collisions,   \* Messages<CollisionMessage>
  cursor,       \* each MessageReader's position in events or collisions
  log,          \* the systems of the running tick that are done (observation only)
  seen           \* melee hits and control timers so far (observation only)

vars == <<phase, next_state, frame, pc, now, arena_r, stats, build, tops, projectiles,
          obstacles, zones, next_entity, events, collisions, cursor, log, seen>>

\* The two entities with the Top marker that setup_arena spawns (P1, P2).
TopIds == {1, 2}

\* Deviation: apply_damage_events scheduled before the weapon systems.
ScheduleApplyEarly ==
  << "speed_boost_system", "speed_boost_tick", "damage_boost_system",
     "gravity_device_system", "integrate_physics", "integrate_projectiles",
     "spin_drain", "tick_control_state", "tick_melee_trackers",
     "wall_reflection", "static_obstacle_bounce",
     "detect_collisions",
     "generate_collision_damage", "apply_damage_events", "detect_melee_hits",
     "fire_ranged_weapons", "process_hooks",
     "apply_control_events", "resolve_top_collisions",
     "spawn_projectiles",
     "despawn_projectiles_outside_arena", "cleanup_ttl", "handle_despawn_events",
     "play_sound_effects" >>

\* FixedUpdate, as GamePlugin::build configures it: the six chained sets and
\* the chained systems of each.
Schedule ==
  << "speed_boost_system", "speed_boost_tick", "damage_boost_system",
     "gravity_device_system", "integrate_physics", "integrate_projectiles",
     "spin_drain", "tick_control_state", "tick_melee_trackers",
     "wall_reflection", "static_obstacle_bounce",
     "detect_collisions",
     "generate_collision_damage", "detect_melee_hits", "fire_ranged_weapons",
     "process_hooks",
     "apply_damage_events", "apply_control_events", "resolve_top_collisions",
     "spawn_projectiles",
     "despawn_projectiles_outside_arena", "cleanup_ttl", "handle_despawn_events",
     "play_sound_effects" >>

\* The systems that hold a MessageReader<GameEvent> / <CollisionMessage>.
\* (process_hooks holds one too and never reads from it.)
EventReaders == {"apply_damage_events", "apply_control_events",
                 "spawn_projectiles", "handle_despawn_events", "play_sound_effects"}
CollisionReaders == {"generate_collision_damage", "resolve_top_collisions",
                     "play_sound_effects_c"}

\* ---------------------------------------------------------------- setup_arena

\* One spawned top: the component bundle of setup_arena.
SpawnTop(x, angle, aim, effective) ==
  [pos |-> <<x, 0>>, vel |-> ZERO, angle |-> AngleRadNew(angle),
   hp |-> effective.spin_hp_max,
   stun_remaining |-> 0, slow_remaining |-> 0, slow_ratio |-> 0,
   cooldowns |-> <<>>, timer |-> 0,
   sb_expires_at |-> 0, sb_multiplier |-> FP, db_multiplier |-> FP,
   aim |-> aim]

\* world position and radius of a placement
PlacementPos(p) == <<p.grid_x * GRID_CELL_SIZE, p.grid_y * GRID_CELL_SIZE>>
cell_radius == GRID_CELL_SIZE \div 2

RECURSIVE SelectItems(_, _, _)
\* the placements of one kind, as entities numbered from `id`
SelectItems(placements, kind, id) ==
  IF placements = <<>> THEN <<>>
  ELSE IF Head(placements).item = kind
       THEN <<[id |-> id, pos |-> PlacementPos(Head(placements)), radius |-> cell_radius]>>
            \o SelectItems(Tail(placements), kind, id + 1)
       ELSE SelectItems(Tail(placements), kind, id + 1)

\* The obstacles setup_arena spawns: StaticObstacle + ObstacleMarker, DamageOnHit,
\* and no ExpiresAt.
MapObstacles(map) ==
  LET items == SelectItems(map.placements, "Obstacle", 3)
  IN  [k \in 1..Len(items) |->
         [id |-> items[k].id, pos |-> items[k].pos, radius |-> items[k].radius,
          behavior |-> "DamageOnHit", static |-> TRUE, expires_at |-> None]]

MapZones(map) ==
  LET g == SelectItems(map.placements, "GravityDevice", 3)
      sb == SelectItems(map.placements, "SpeedBoost", 3)
      db == SelectItems(map.placements, "DamageBoost", 3)
  IN  [gravity |-> [k \in 1..Len(g) |-> [pos |-> g[k].pos, radius |-> 3 * FP]],
       speed |-> [k \in 1..Len(sb) |->
                    [pos |-> sb[k].pos, radius |-> sb[k].radius,
                     multiplier |-> 900, duration |-> 3 * FP]],
       damage |-> [k \in 1..Len(db) |->
                    [pos |-> db[k].pos, radius |-> db[k].radius, multiplier |-> 900]]]

Builds == {DefaultBladeBuild, DefaultBlasterBuild, BrawlerBuild, ScoutBuild, TurretBuild}
Maps == {DefaultArena, SmallArena}
\* LaunchAim.angle of P1 and P2 once confirmed (read_aim_input, ai_auto_aim)
AimAngles == { <<0, PI_FP>>, <<PI_FP, 0>>, <<FRAC_PI_2_FP, 314>> }

Effective(b) == compute_effective(combined_modifiers(b), b.top)

\* What is observed of a battle: per attacker, the dt its tracker has accumulated
\* since its last melee hit (-1: no hit yet), the same at the time of that hit, and
\* the number of hits; per top and timer, the value an event last set and the
\* calls of tick_control_state since; what the system that ran last started
\* from: the components of the tops and the number of events written before it;
\* the fixed time up to which the battle is followed; the projectile of every
\* Projectile DealDamage event written so far; every entity despawned so far,
\* with the system that despawned it; where integrate_physics left each top;
\* and per top the dt fire_ranged_weapons has counted since the top last fired
\* (-1: it has not fired), and the same at the time it fired.
SeenInit(ts) ==
  [until |-> MaxTicks * dt, before |-> ts, nev |-> 0, hits |-> <<>>, gone |-> {},
   moved |-> [i \in TopIds |-> ts[i].pos],
   hit |-> [a \in TopIds |-> [since |-> -1, gap |-> -1, count |-> 0]],
   shot |-> [i \in TopIds |-> [since |-> -1, gap |-> -1]],
   stun |-> [i \in TopIds |-> [set |-> ts[i].stun_remaining, ticks |-> 0]],
   slow |-> [i \in TopIds |-> [set |-> ts[i].slow_remaining, ticks |-> 0]]]

\* The state when every LaunchAim is confirmed in the Aiming phase: setup_arena
\* has run on OnEnter(Aiming).
Init ==
  \E b1 \in Builds, b2 \in Builds, m \in Maps, aim \in AimAngles :
    /\ phase = "Aiming"
    /\ next_state = Unchanged
    /\ frame = "Update"
    /\ pc = 0
    /\ now = 0
    /\ arena_r = m.arena_radius
    /\ build = (1 :> b1) @@ (2 :> b2)
    /\ stats = (1 :> Effective(b1)) @@ (2 :> Effective(b2))
    /\ tops = (1 :> SpawnTop(-3 * FP, 0, aim[1], Effective(b1)))
              @@ (2 :> SpawnTop(3 * FP, PI_FP, aim[2], Effective(b2)))
    /\ projectiles = <<>>
    /\ obstacles = MapObstacles(m)
    /\ zones = MapZones(m)
    /\ next_entity = 3 + Len(m.placements)
    /\ events = <<>>
    /\ collisions = <<>>
    /\ cursor = [r \in EventReaders \cup CollisionReaders |-> 0]
    /\ log = <<>>
    /\ seen = SeenInit(tops)

\* ---------------------------------------------------------------- frames

world == <<arena_r, stats, build, obstacles, zones>>
queues == <<events, collisions, cursor>>

\* launch_tops (OnEnter(Battle))
launch_tops ==
  [i \in TopIds |-> [tops[i] EXCEPT !.vel = VScale(DirOf(tops[i].aim), stats[i].move_speed)]]

\* The StateTransition schedule: apply the pending NextState, run OnEnter.
StateTransition ==
  /\ frame = "StateTransition"
  /\ frame' = "FixedUpdate"
  /\ phase' = IF next_state # Unchanged THEN next_state ELSE phase
  /\ next_state' = Unchanged
  /\ tops' = IF next_state = "Battle" THEN launch_tops ELSE tops
  /\ log' = IF next_state = "Battle" THEN <<"launch_tops">> ELSE log
  /\ UNCHANGED <<pc, now, world, projectiles, next_entity, queues, seen>>

MinCursor(rs) == CHOOSE c \in {cursor[r] : r \in rs} : \A r \in rs : c <= cursor[r]
Drop(seq, k) == SubSeq(seq, k + 1, Len(seq))

\* One run of FixedUpdate starts: fixed time advances by the timestep (tuning.dt),
\* messages every reader has read are dropped, and the sets run only in Battle.
BeginTick ==
  /\ frame = "FixedUpdate"
  /\ pc = 0
  /\ now < seen.until
  /\ now' = now + dt
  /\ pc' = IF phase = "Battle" THEN 1 ELSE 0
  /\ events' = Drop(events, MinCursor(EventReaders))
  /\ collisions' = Drop(collisions, MinCursor(CollisionReaders))
  /\ cursor' = [r \in DOMAIN cursor |->
                  cursor[r] - (IF r \in EventReaders THEN MinCursor(EventReaders)
                                                     ELSE MinCursor(CollisionReaders))]
  /\ log' = <<>>
  /\ UNCHANGED <<phase, next_state, frame, world, tops, projectiles, next_entity, seen>>

\* RunFixedMainLoop is over for this frame (after zero or more ticks).
EndFixedLoop ==
  /\ frame = "FixedUpdate"
  /\ pc = 0
  /\ frame' = "Update"
  /\ UNCHANGED <<phase, next_state, pc, now, world, tops, projectiles, next_entity,
                 queues, log, seen>>

\* check_all_confirmed (Update, in Aiming)
check_all_confirmed ==
  /\ frame = "Update"
  /\ phase = "Aiming"
  /\ next_state' = "Battle"
  /\ frame' = "StateTransition"
  /\ UNCHANGED <<phase, pc, now, world, tops, projectiles, next_entity, queues, log, seen>>

\* check_game_over (Update, in Battle)
check_game_over ==
  /\ frame = "Update"
  /\ phase = "Battle"
  /\ next_state' = IF \E i \in TopIds : tops[i].hp <= 0 THEN "GameOver" ELSE next_state
  /\ frame' = "StateTransition"
  /\ UNCHANGED <<phase, pc, now, world, tops, projectiles, next_entity, queues, log, seen>>

\* Update in GameOver: no system of the battle runs.
UpdateGameOver ==
  /\ frame = "Update"
  /\ phase = "GameOver"
  /\ frame' = "StateTransition"
  /\ UNCHANGED <<phase, next_state, pc, now, world, tops, projectiles, next_entity,
                 queues, log, seen>>

\* ---------------------------------------------------------------- systems

\* The system `name` is the next of the running tick.
At(name) == frame = "FixedUpdate" /\ pc > 0 /\ Schedule[pc] = name

\* The system is done: the next one runs, or the tick ends.
Finish(name) ==
  /\ pc' = IF pc = Len(Schedule) THEN 0 ELSE pc + 1
  /\ log' = Append(log, name)
  /\ UNCHANGED <<phase, next_state, frame, now, arena_r, stats, build>>

\* The observation s, with what the running system starts from.
Observe(s) == [s EXCEPT !.before = tops, !.nev = Len(events)]

Done(name) == Finish(name) /\ seen' = Observe(seen)

SetMax(S) == CHOOSE x \in S : \A y \in S : y <= x
Range(seq) == {seq[k] : k \in DOMAIN seq}

\* the zones of `zs` a top overlaps
Overlapping(i, zs) ==
  {z \in Range(zs) : Distance(tops[i].pos, z.pos) < stats[i].radius + z.radius}

\* speed_boost_system
speed_boost_system ==
  /\ At("speed_boost_system")
  /\ tops' = [i \in TopIds |->
       LET inz == Overlapping(i, zones.speed)
           best_mult == SetMax({FP} \cup {z.multiplier : z \in inz})
           best_dur == SetMax({0} \cup {z.duration : z \in inz})
       IN  IF inz # {}
           THEN [tops[i] EXCEPT !.sb_expires_at = now + best_dur,
                                !.sb_multiplier = best_mult]
           ELSE tops[i]]
  /\ Done("speed_boost_system")
  /\ UNCHANGED <<projectiles, obstacles, zones, next_entity, queues>>

\* Deviation: the boost ends as soon as the top is outside every zone.
speed_boost_tick_no_persist ==
  /\ At("speed_boost_tick")
  /\ tops' = [i \in TopIds |->
       IF Overlapping(i, zones.speed) = {} THEN [tops[i] EXCEPT !.sb_multiplier = FP]
                                           ELSE tops[i]]
  /\ Done("speed_boost_tick")
  /\ UNCHANGED <<projectiles, obstacles, zones, next_entity, queues>>

\* speed_boost_tick
speed_boost_tick ==
  /\ At("speed_boost_tick")
  /\ tops' = [i \in TopIds |->
       IF now >= tops[i].sb_expires_at THEN [tops[i] EXCEPT !.sb_multiplier = FP]
                                       ELSE tops[i]]
  /\ Done("speed_boost_tick")
  /\ UNCHANGED <<projectiles, obstacles, zones, next_entity, queues>>

\* Deviation: outside every zone the multiplier of the tick before is kept.
damage_boost_system_persist ==
  /\ At("damage_boost_system")
  /\ tops' = [i \in TopIds |->
       LET inz == Overlapping(i, zones.damage)
           best_mult == SetMax({FP} \cup {z.multiplier : z \in inz})
       IN  [tops[i] EXCEPT !.db_multiplier = IF inz # {} THEN best_mult ELSE @]]
  /\ Done("damage_boost_system")
  /\ UNCHANGED <<projectiles, obstacles, zones, next_entity, queues>>

\* damage_boost_system
damage_boost_system ==
  /\ At("damage_boost_system")
  /\ tops' = [i \in TopIds |->
       LET inz == Overlapping(i, zones.damage)
           best_mult == SetMax({FP} \cup {z.multiplier : z \in inz})
       IN  [tops[i] EXCEPT !.db_multiplier = IF inz # {} THEN best_mult ELSE FP]]
  /\ Done("damage_boost_system")
  /\ UNCHANGED <<projectiles, obstacles, zones, next_entity, queues>>

\* Vec2::normalize
Normalize(v) == VDivS(v, Length(v))

\* steer_strength of gravity_device_system
steer_strength == 1800

RECURSIVE GravitySteer(_, _, _, _)
\* gravity_device_system for one top: each device in turn steers the velocity.
GravitySteer(devs, pos, radius, vel) ==
  IF devs = <<>> THEN vel
  ELSE LET dev == Head(devs)
           dist == Distance(pos, dev.pos)
           speed == Length(vel)
           toward_device == VDivS(VSub(dev.pos, pos), dist)
           blend == Min(MulFP(steer_strength, dt), FP)
           current_dir == VDivS(vel, speed)
           new_dir == Normalize(VAdd(VScale(current_dir, FP - blend),
                                     VScale(toward_device, blend)))
           v2 == IF dist < dev.radius + radius /\ dist > 6 /\ speed > 6
                 THEN VScale(new_dir, speed) ELSE vel
       IN  GravitySteer(Tail(devs), pos, radius, v2)

gravity_device_system ==
  /\ At("gravity_device_system")
  /\ tops' = [i \in TopIds |->
       [tops[i] EXCEPT !.vel = GravitySteer(zones.gravity, tops[i].pos,
                                            stats[i].radius, tops[i].vel)]]
  /\ Done("gravity_device_system")
  /\ UNCHANGED <<projectiles, obstacles, zones, next_entity, queues>>

\* Vec2::normalize_or_zero
NormalizeOrZero(v) == IF Length(v) > 0 THEN Normalize(v) ELSE ZERO

\* Deviation: the intent of a stunned top is applied like any other.
apply_intent_stunned(t, move_dir, st) ==
  LET vel == IF move_dir # ZERO
             THEN VAdd(t.vel, VScale(VScale(NormalizeOrZero(move_dir), input_accel), dt))
             ELSE t.vel
  IN  [t EXCEPT !.vel = IF Length(vel) > st.move_speed
                        THEN VScale(NormalizeOrZero(vel), st.move_speed) ELSE vel]

\* physics::apply_intent for one top with Intent.move_dir (the system is added
\* to no schedule, and no entity has an Intent: it is kept as a function)
apply_intent(t, move_dir, st) ==
  LET speed_mult == IF ~is_expired(t.slow_remaining) THEN FP - t.slow_ratio ELSE FP
      vel == IF move_dir # ZERO
             THEN VAdd(t.vel, VScale(VScale(NormalizeOrZero(move_dir), input_accel), dt))
             ELSE t.vel
      effective_max == MulFP(st.move_speed, speed_mult)
  IN  IF ~is_expired(t.stun_remaining) THEN t
      ELSE [t EXCEPT !.vel = IF Length(vel) > effective_max
                             THEN VScale(NormalizeOrZero(vel), effective_max) ELSE vel]

\* integrate_physics
integrate_physics ==
  /\ At("integrate_physics")
  /\ tops' = [i \in TopIds |->
       LET v == tops[i].vel
       IN  [tops[i] EXCEPT
              !.pos = VAdd(@, VScale(v, dt)),
              !.angle = IF LengthSquaredRaw(v) > 360
                        THEN advance(@, MulFP(Length(v) * 2, dt)) ELSE @]]
  /\ seen' = Observe([seen EXCEPT !.moved = [i \in TopIds |-> tops'[i].pos]])
  /\ Finish("integrate_physics")
  /\ UNCHANGED <<projectiles, obstacles, zones, next_entity, queues>>

\* integrate_projectiles
integrate_projectiles ==
  /\ At("integrate_projectiles")
  /\ projectiles' = [k \in DOMAIN projectiles |->
       [projectiles[k] EXCEPT !.pos = VAdd(@, VScale(projectiles[k].vel, dt)),
                              !.lifetime = dec(@, dt)]]
  /\ Done("integrate_projectiles")
  /\ UNCHANGED <<tops, obstacles, zones, next_entity, queues>>

\* spin_drain
spin_drain ==
  /\ At("spin_drain")
  /\ tops' = [i \in TopIds |->
       [tops[i] EXCEPT !.hp = sub_clamped(@, MulFP(stats[i].spin_drain_idle_per_sec, dt))]]
  /\ Done("spin_drain")
  /\ UNCHANGED <<projectiles, obstacles, zones, next_entity, queues>>

\* ControlState::is_stunned, is_slowed, tick
is_stunned(c) == ~is_expired(c.stun_remaining)
is_slowed(c) == ~is_expired(c.slow_remaining)
ControlTick(c, d) == [c EXCEPT !.stun_remaining = dec(@, d), !.slow_remaining = dec(@, d)]

\* tick_control_state
tick_control_state ==
  /\ At("tick_control_state")
  /\ tops' = [i \in TopIds |-> ControlTick(tops[i], dt)]
  /\ seen' = Observe([seen EXCEPT !.stun = [i \in TopIds |-> [@[i] EXCEPT !.ticks = @ + 1]],
                        !.slow = [i \in TopIds |-> [@[i] EXCEPT !.ticks = @ + 1]]])
  /\ Finish("tick_control_state")
  /\ UNCHANGED <<projectiles, obstacles, zones, next_entity, queues>>

\* Vec::retain
Retain(seq, Keep(_)) ==
  LET F[k \in 0..Len(seq)] ==
        IF k = 0 THEN <<>>
        ELSE IF Keep(seq[k]) THEN Append(F[k - 1], seq[k]) ELSE F[k - 1]
  IN  F[Len(seq)]

\* MeleeHitTracker::can_hit, register_hit, tick
can_hit(cooldowns, target) ==
  ~ \E k \in DOMAIN cooldowns : cooldowns[k][1] = target /\ cooldowns[k][2] > 0
\* Deviation: the hit is registered without its cooldown.
register_hit_no_cooldown(cooldowns, target, cooldown) == Append(cooldowns, <<target, 0>>)
register_hit(cooldowns, target, cooldown) == Append(cooldowns, <<target, cooldown>>)
\* Deviation: the entries that have run out are kept.
TrackerTickKeepsExpired(cooldowns, d) ==
  [k \in DOMAIN cooldowns |-> <<cooldowns[k][1], cooldowns[k][2] - d>>]
TrackerTick(cooldowns, d) ==
  LET ticked == [k \in DOMAIN cooldowns |-> <<cooldowns[k][1], cooldowns[k][2] - d>>]
      Live(c) == c[2] > 0
  IN  Retain(ticked, Live)

\* tick_melee_trackers
tick_melee_trackers ==
  /\ At("tick_melee_trackers")
  /\ tops' = [i \in TopIds |-> [tops[i] EXCEPT !.cooldowns = TrackerTick(@, dt)]]
  /\ seen' = Observe([seen EXCEPT !.hit = [a \in TopIds |->
                [@[a] EXCEPT !.since = IF @ < 0 THEN @ ELSE @ + dt]]])
  /\ Finish("tick_melee_trackers")
  /\ UNCHANGED <<projectiles, obstacles, zones, next_entity, queues>>

\* ---------------------------------------------------------------- events

DealDamage(src, dst, amount, kind) ==
  [type |-> "DealDamage", src |-> src, dst |-> dst, amount |-> amount, kind |-> kind]
ApplyControl(src, dst, control) ==
  [type |-> "ApplyControl", src |-> src, dst |-> dst, control |-> control]
SpawnProjectile(src, position, direction, speed, damage, radius, lifetime) ==
  [type |-> "SpawnProjectile", src |-> src, position |-> position,
   direction |-> direction, speed |-> speed, damage |-> damage, radius |-> radius,
   lifetime |-> lifetime]
DespawnEntity(entity) == [type |-> "DespawnEntity", entity |-> entity]
CollisionMessage(a, b, impulse, normal) ==
  [a |-> a, b |-> b, impulse |-> impulse, normal |-> normal]

\* MessageReader::read of reader r: the messages written since it last read.
Unread(r) == IF r \in EventReaders THEN Drop(events, cursor[r])
                                   ELSE Drop(collisions, cursor[r])
\* ... and its cursor afterwards.
ReadAll(rs) ==
  [r \in DOMAIN cursor |->
     IF r \in rs THEN (IF r \in EventReaders THEN Len(events) ELSE Len(collisions))
     ELSE cursor[r]]

RECURSIVE Flatten(_)
Flatten(seqs) == IF seqs = <<>> THEN <<>> ELSE Head(seqs) \o Flatten(Tail(seqs))

\* ---------------------------------------------------------------- arena

\* Deviation: a top beyond the boundary is reflected and damaged whichever way
\* it moves.
WallReflectAlways(i, top) ==
  LET pos == top.pos
      dist == Length(pos)
      boundary == arena_r - stats[i].radius
      damping == Clamp(wall_bounce_damping, 0, FP)
      normal == VDivS(pos, dist)
      overshoot == dist - boundary
      dot == Dot(top.vel, normal)
      reflected == VScale(VSub(top.vel, VScale(normal, 2 * dot)), damping)
  IN  IF dist > boundary /\ dist > 0
      THEN << VSub(pos, VScale(normal, overshoot)), reflected,
              <<DealDamage(None, i, wall_damage_k, "Wall")>> >>
      ELSE << pos, top.vel, <<>> >>

\* Deviation: the wall damage grows with the outward speed.
WallReflectScaled(i, top) ==
  LET pos == top.pos
      dist == Length(pos)
      boundary == arena_r - stats[i].radius
      damping == Clamp(wall_bounce_damping, 0, FP)
      normal == VDivS(pos, dist)
      overshoot == dist - boundary
      dot == Dot(top.vel, normal)
      reflected == VScale(VSub(top.vel, VScale(normal, 2 * dot)), damping)
  IN  IF dist > boundary /\ dist > 0
      THEN IF dot > 0
           THEN << VSub(pos, VScale(normal, overshoot)), reflected,
                   <<DealDamage(None, i, MulFP(wall_damage_k, dot), "Wall")>> >>
           ELSE << VSub(pos, VScale(normal, overshoot)), top.vel, <<>> >>
      ELSE << pos, top.vel, <<>> >>

\* wall_reflection for one top: <<position, velocity, events written>>
WallReflectTop(i, top) ==
  LET pos == top.pos
      dist == Length(pos)
      boundary == arena_r - stats[i].radius
      damping == Clamp(wall_bounce_damping, 0, FP)
      normal == VDivS(pos, dist)
      overshoot == dist - boundary
      dot == Dot(top.vel, normal)
      reflected == VScale(VSub(top.vel, VScale(normal, 2 * dot)), damping)
  IN  IF dist > boundary /\ dist > 0
      THEN IF dot > 0
           THEN << VSub(pos, VScale(normal, overshoot)), reflected,
                   IF wall_damage_k > 0
                   THEN <<DealDamage(None, i, wall_damage_k, "Wall")>> ELSE <<>> >>
           ELSE << VSub(pos, VScale(normal, overshoot)), top.vel, <<>> >>
      ELSE << pos, top.vel, <<>> >>

wall_reflection ==
  /\ At("wall_reflection")
  /\ tops' = [i \in TopIds |->
       [tops[i] EXCEPT !.pos = WallReflectTop(i, tops[i])[1],
                       !.vel = WallReflectTop(i, tops[i])[2]]]
  /\ events' = events \o WallReflectTop(1, tops[1])[3] \o WallReflectTop(2, tops[2])[3]
  /\ Done("wall_reflection")
  /\ UNCHANGED <<projectiles, obstacles, zones, next_entity, collisions, cursor>>

RECURSIVE ObstacleBounce(_, _, _, _, _)
\* static_obstacle_bounce for one top: top_pos is read once, before the loop over
\* the obstacles; the translation and the velocity accumulate.
ObstacleBounce(obs, top_pos, top_radius, tr, vel) ==
  IF obs = <<>> THEN <<tr, vel>>
  ELSE LET o == Head(obs)
           dist == Distance(top_pos, o.pos)
           min_dist == top_radius + o.radius
           normal == VDivS(VSub(top_pos, o.pos), dist)
           overshoot == min_dist - dist
           dot == Dot(vel, VNeg(normal))
           hit == o.static /\ dist < min_dist /\ dist > 0
           tr2 == IF hit THEN VAdd(tr, VScale(normal, overshoot)) ELSE tr
           vel2 == IF hit /\ dot > 0
                   THEN VSub(vel, VScale(VNeg(normal), 2 * dot)) ELSE vel
       IN  ObstacleBounce(Tail(obs), top_pos, top_radius, tr2, vel2)

static_obstacle_bounce ==
  /\ At("static_obstacle_bounce")
  /\ tops' = [i \in TopIds |->
       LET r == ObstacleBounce(obstacles, tops[i].pos, stats[i].radius,
                               tops[i].pos, tops[i].vel)
       IN  [tops[i] EXCEPT !.pos = r[1], !.vel = r[2]]]
  /\ Done("static_obstacle_bounce")
  /\ UNCHANGED <<projectiles, obstacles, zones, next_entity, queues>>

\* ---------------------------------------------------------------- collision

\* Deviation: a pair whose rims just touch counts as in contact.
TopTopContactTouching(a, b) ==
  LET dist == Distance(tops[a].pos, tops[b].pos)
      min_dist == stats[a].radius + stats[b].radius
      normal == VDivS(VSub(tops[b].pos, tops[a].pos), dist)
      rel_vel == VSub(tops[a].vel, tops[b].vel)
      impulse == Dot(rel_vel, normal)
  IN  IF dist <= min_dist /\ dist > 0
      THEN IF impulse > 0 THEN <<[a |-> a, b |-> b, impulse |-> impulse, normal |-> normal]>>
           ELSE <<>>
      ELSE <<>>

\* Deviation: tops at the same position are in contact, along the x axis.
TopTopContactFallbackNormal(a, b) ==
  LET dist == Distance(tops[a].pos, tops[b].pos)
      min_dist == stats[a].radius + stats[b].radius
      normal == IF dist > 0 THEN VDivS(VSub(tops[b].pos, tops[a].pos), dist) ELSE <<FP, 0>>
      impulse == Dot(VSub(tops[a].vel, tops[b].vel), normal)
  IN  IF dist < min_dist /\ impulse > 0
      THEN <<CollisionMessage(a, b, impulse, normal)>> ELSE <<>>

\* detect_collisions, top-top: the contact of the pair (a, b), if any
TopTopContact(a, b) ==
  LET dist == Distance(tops[a].pos, tops[b].pos)
      min_dist == stats[a].radius + stats[b].radius
      normal == VDivS(VSub(tops[b].pos, tops[a].pos), dist)
      rel_vel == VSub(tops[a].vel, tops[b].vel)
      impulse == Dot(rel_vel, normal)
  IN  IF dist < min_dist /\ dist > 0
      THEN IF impulse > 0 THEN <<CollisionMessage(a, b, impulse, normal)>> ELSE <<>>
      ELSE <<>>

\* detect_collisions, top-obstacle: the events of top i
TopObstacleEvents(i) ==
  Flatten([k \in DOMAIN obstacles |->
     IF Distance(tops[i].pos, obstacles[k].pos) < stats[i].radius + obstacles[k].radius
        /\ obstacles[k].behavior = "DamageOnHit"
     THEN <<DealDamage(Some(obstacles[k].id), i, obstacle_damage, "Obstacle")>>
     ELSE <<>>])

\* Deviation: the top that is hit is named for despawn, not the projectile.
ProjectileEventsDespawnTop(p) ==
  Flatten([i \in 1..2 |->
     IF i # p.owner /\ Distance(p.pos, tops[i].pos) < p.radius + stats[i].radius
     THEN <<DealDamage(Some(p.owner), i, p.damage, "Projectile"), DespawnEntity(i)>>
     ELSE <<>>])

\* Deviation: the owner of the projectile is not skipped.
ProjectileEventsHitOwner(p) ==
  Flatten([i \in 1..2 |->
     IF Distance(p.pos, tops[i].pos) < p.radius + stats[i].radius
     THEN <<DealDamage(Some(p.owner), i, p.damage, "Projectile"), DespawnEntity(p.id)>>
     ELSE <<>>])

\* detect_collisions, projectile-top: the events of one projectile
ProjectileEvents(p) ==
  Flatten([i \in 1..2 |->
     IF i # p.owner /\ Distance(p.pos, tops[i].pos) < p.radius + stats[i].radius
     THEN <<DealDamage(Some(p.owner), i, p.damage, "Projectile"), DespawnEntity(p.id)>>
     ELSE <<>>])

detect_collisions ==
  /\ At("detect_collisions")
  /\ collisions' = collisions \o TopTopContact(1, 2)
  /\ events' = events \o TopObstacleEvents(1) \o TopObstacleEvents(2)
                 \o Flatten([k \in DOMAIN projectiles |-> ProjectileEvents(projectiles[k])])
  /\ seen' = Observe([seen EXCEPT !.hits = @ \o
       Flatten([k \in DOMAIN projectiles |->
          LET evs == ProjectileEvents(projectiles[k])
              Hit(ev) == ev.type = "DealDamage"
          IN  [n \in DOMAIN Retain(evs, Hit) |-> projectiles[k].id]])])
  /\ Finish("detect_collisions")
  /\ UNCHANGED <<tops, projectiles, obstacles, zones, next_entity, cursor>>

\* ---------------------------------------------------------------- combat

\* Deviation: only the first top of the contact deals damage.
CollisionDamageOneWay(c) ==
  << DealDamage(Some(c.a), c.b, MulFP(collision_damage_k, c.impulse), "Collision") >>

\* generate_collision_damage: the two events of one contact
CollisionDamage(c) ==
  LET damage == MulFP(collision_damage_k, c.impulse)
  IN  << DealDamage(Some(c.a), c.b, damage, "Collision"),
         DealDamage(Some(c.b), c.a, damage, "Collision") >>

generate_collision_damage ==
  /\ At("generate_collision_damage")
  /\ LET cs == Unread("generate_collision_damage")
     IN  events' = events \o Flatten([k \in DOMAIN cs |-> CollisionDamage(cs[k])])
  /\ cursor' = ReadAll({"generate_collision_damage"})
  /\ Done("generate_collision_damage")
  /\ UNCHANGED <<tops, projectiles, obstacles, zones, next_entity, collisions>>

\* `weapon_dir.dot(target_dir).acos() > half`: acos is decreasing on [-1, 1]
\* with values in [0, pi], and NaN (never greater) outside.
AcosGreater(d, half) ==
  IF Abs(d) > FP THEN FALSE
  ELSE IF half < 0 THEN TRUE
  ELSE IF half >= PI_FP THEN FALSE
  ELSE d < Cos(half)

\* detect_melee_hits: does attacker a reach target t now (range and arc)?
MeleeReaches(a, t, melee) ==
  LET to_target == VSub(tops[t].pos, tops[a].pos)
      dist == Length(to_target)
      reach == stats[a].radius + melee.hitbox_radius
      weapon_dir == DirOf(tops[a].angle)
      target_dir == VDivS(to_target, dist)
  IN  /\ ~(dist > reach + stats[t].radius)
      /\ (dist > 0 => ~AcosGreater(Dot(weapon_dir, target_dir), melee.hitbox_angle \div 2))

\* detect_melee_hits: attacker a hits target t in this tick
MeleeHit(a, t) ==
  /\ build[a].weapon.melee # None
  /\ a # t
  /\ can_hit(tops[a].cooldowns, t)
  /\ MeleeReaches(a, t, Unwrap(build[a].weapon.melee))

\* the damage of a hit, scaled with the attacker's speed when the tuning says so
MeleeDamage(a, melee) ==
  IF melee_speed_scale_k > 0
  THEN MulFP(melee.base_damage, FP + MulFP(melee_speed_scale_k, Length(tops[a].vel)))
  ELSE melee.base_damage

\* the events attacker a writes in this tick
MeleeEvents(a) ==
  LET t == 3 - a
      melee == Unwrap(build[a].weapon.melee)
  IN  IF MeleeHit(a, t)
      THEN <<DealDamage(Some(a), t, MeleeDamage(a, melee), "Melee")>>
           \o (IF melee.hit_control # None
               THEN <<ApplyControl(Some(a), t, Unwrap(melee.hit_control))>> ELSE <<>>)
      ELSE <<>>

detect_melee_hits ==
  /\ At("detect_melee_hits")
  /\ tops' = [a \in TopIds |->
       IF MeleeHit(a, 3 - a)
       THEN [tops[a] EXCEPT !.cooldowns =
               register_hit(@, 3 - a, Unwrap(build[a].weapon.melee).hit_cooldown)]
       ELSE tops[a]]
  /\ events' = events \o MeleeEvents(1) \o MeleeEvents(2)
  /\ seen' = Observe([seen EXCEPT !.hit = [a \in TopIds |->
                IF \E k \in (Len(events) + 1)..Len(events') :
                     /\ events'[k].type = "DealDamage"
                     /\ events'[k].kind = "Melee"
                     /\ events'[k].src = Some(a)
                THEN [since |-> 0, gap |-> seen.hit[a].since, count |-> seen.hit[a].count + 1]
                ELSE seen.hit[a]]])
  /\ Finish("detect_melee_hits")
  /\ UNCHANGED <<projectiles, obstacles, zones, next_entity, collisions, cursor>>

\* Deviation: the timer is not set again after a shot.
NextTimerRunsOn(i) == tops[i].timer - dt

\* fire_ranged_weapons: the timer is due after `timer.0 -= tuning.dt`
FireDue(i) == ~(tops[i].timer - dt > 0)

\* the shots of one top whose timer is due
Shots(i, ranged) ==
  LET pos == tops[i].pos
      angle == tops[i].angle
      dir == DirOf(angle)
      count == Max(ranged.burst_count, 1)
      total_spread == ranged.spread_angle
      step == IF count > 1 THEN RDiv(total_spread, count - 1) ELSE 0
      start_angle == angle - RDiv(total_spread, 2)
      Shot(position, d) ==
        SpawnProjectile(i, position, d, ranged.projectile_speed,
                        ranged.projectile_damage, ranged.projectile_radius,
                        ranged.lifetime)
  IN  IF ranged.burst_count <= 1 /\ ranged.spread_angle <= 0
      THEN <<Shot(VAdd(pos, VScale(dir, stats[i].radius)), dir)>>
      ELSE [k \in 1..count |->
              LET d == DirOf(start_angle + step * (k - 1))
              IN  Shot(VAdd(pos, VScale(d, stats[i].radius)), d)]

RangedEvents(i) ==
  IF FireDue(i) /\ build[i].weapon.ranged # None
  THEN Shots(i, Unwrap(build[i].weapon.ranged)) ELSE <<>>

\* the timer after the system ran
NextTimer(i) ==
  IF FireDue(i) /\ build[i].weapon.ranged # None
  THEN DivFP(FP, Max(MulFP(Unwrap(build[i].weapon.ranged).fire_rate,
                              stats[i].fire_rate_mult), 60))
  ELSE tops[i].timer - dt

fire_ranged_weapons ==
  /\ At("fire_ranged_weapons")
  /\ tops' = [i \in TopIds |-> [tops[i] EXCEPT !.timer = NextTimer(i)]]
  /\ events' = events \o RangedEvents(1) \o RangedEvents(2)
  /\ seen' = Observe([seen EXCEPT !.shot = [i \in TopIds |->
       LET counted == IF @[i].since < 0 THEN -1 ELSE @[i].since + dt
       IN  IF RangedEvents(i) # <<>> THEN [since |-> 0, gap |-> counted]
           ELSE [@[i] EXCEPT !.since = counted]]])
  /\ Finish("fire_ranged_weapons")
  /\ UNCHANGED <<projectiles, obstacles, zones, next_entity, collisions, cursor>>

\* hooks::process_hooks: a pass-through
process_hooks ==
  /\ At("process_hooks")
  /\ Done("process_hooks")
  /\ UNCHANGED <<tops, projectiles, obstacles, zones, next_entity, queues>>

\* Deviation: the final amount is not floored at 0.
FinalAmountUnfloored(ev) ==
  LET src_is_top == ev.src # None /\ Unwrap(ev.src) \in TopIds
      out == IF src_is_top
             THEN MulFP(MulFP(ev.amount, stats[Unwrap(ev.src)].damage_out_mult),
                        tops[Unwrap(ev.src)].db_multiplier)
             ELSE ev.amount
  IN  MulFP(out, stats[ev.dst].damage_in_mult)

\* Deviation: the multipliers of the source are left out.
FinalAmountDestinationOnly(ev) == Max(MulFP(ev.amount, stats[ev.dst].damage_in_mult), 0)

\* apply_damage_events: the amount one DealDamage event takes from its target
FinalAmount(ev) ==
  LET src_is_top == ev.src # None /\ Unwrap(ev.src) \in TopIds
      out == IF src_is_top
             THEN MulFP(MulFP(ev.amount, stats[Unwrap(ev.src)].damage_out_mult),
                        tops[Unwrap(ev.src)].db_multiplier)
             ELSE ev.amount
  IN  Max(MulFP(out, stats[ev.dst].damage_in_mult), 0)

\* apply_damage_events: one event applied to the SpinHp of every top
ApplyDamageEvent(hp, ev) ==
  IF ev.type = "DealDamage" /\ ev.dst \in TopIds
  THEN [hp EXCEPT ![ev.dst] = sub_clamped(@, FinalAmount(ev))]
  ELSE hp

RECURSIVE ApplyDamageEventsStopAtUnknown(_, _)
\* Deviation: the first event whose destination is no top ends the loop.
ApplyDamageEventsStopAtUnknown(hp, evs) ==
  IF evs = <<>> THEN hp
  ELSE IF Head(evs).type = "DealDamage" /\ Head(evs).dst \notin TopIds THEN hp
  ELSE ApplyDamageEventsStopAtUnknown(ApplyDamageEvent(hp, Head(evs)), Tail(evs))

RECURSIVE ApplyDamageEvents(_, _)
\* apply_damage_events: the events in the order they were written
ApplyDamageEvents(hp, evs) ==
  IF evs = <<>> THEN hp
  ELSE ApplyDamageEvents(ApplyDamageEvent(hp, Head(evs)), Tail(evs))

apply_damage_events ==
  /\ At("apply_damage_events")
  /\ LET hp == ApplyDamageEvents([i \in TopIds |-> tops[i].hp],
                                 Unread("apply_damage_events"))
     IN  tops' = [i \in TopIds |-> [tops[i] EXCEPT !.hp = hp[i]]]
  /\ cursor' = ReadAll({"apply_damage_events"})
  /\ Done("apply_damage_events")
  /\ UNCHANGED <<projectiles, obstacles, zones, next_entity, events, collisions>>

\* Deviation: a new effect adds its duration to the time that remains.
apply_control_additive(c, control, control_multiplier) ==
  LET reduced == apply_reduction(control, control_multiplier)
  IN  CASE reduced.kind = "Stun" ->
             [c EXCEPT !.stun_remaining = @ + reduced.duration]
        [] reduced.kind = "Slow" ->
             [c EXCEPT !.slow_remaining = @ + reduced.duration,
                       !.slow_ratio = reduced.ratio]
        [] OTHER -> c

\* ControlState::apply_control
apply_control(c, control, control_multiplier) ==
  LET reduced == apply_reduction(control, control_multiplier)
  IN  CASE reduced.kind = "Stun" ->
             IF reduced.duration > c.stun_remaining
             THEN [c EXCEPT !.stun_remaining = reduced.duration] ELSE c
        [] reduced.kind = "Slow" ->
             IF reduced.duration > c.slow_remaining
             THEN [c EXCEPT !.slow_remaining = reduced.duration,
                            !.slow_ratio = reduced.ratio]
             ELSE c
        [] OTHER -> c

\* apply_control_events: one event applied to the ControlState of every top
ApplyControlEvent(ts, ev) ==
  IF ev.type = "ApplyControl" /\ ev.dst \in TopIds
  THEN [ts EXCEPT ![ev.dst] = apply_control(@, ev.control, stats[ev.dst].control_multiplier)]
  ELSE ts

RECURSIVE ApplyControlEvents(_, _)
ApplyControlEvents(ts, evs) ==
  IF evs = <<>> THEN ts
  ELSE ApplyControlEvents(ApplyControlEvent(ts, Head(evs)), Tail(evs))

apply_control_events ==
  /\ At("apply_control_events")
  /\ tops' = ApplyControlEvents(tops, Unread("apply_control_events"))
  /\ cursor' = ReadAll({"apply_control_events"})
  /\ seen' = Observe([seen EXCEPT
       !.stun = [i \in TopIds |->
                   IF tops'[i].stun_remaining # tops[i].stun_remaining
                   THEN [set |-> tops'[i].stun_remaining, ticks |-> 0] ELSE @[i]],
       !.slow = [i \in TopIds |->
                   IF tops'[i].slow_remaining # tops[i].slow_remaining
                   THEN [set |-> tops'[i].slow_remaining, ticks |-> 0] ELSE @[i]]])
  /\ Finish("apply_control_events")
  /\ UNCHANGED <<projectiles, obstacles, zones, next_entity, events, collisions>>

\* Deviation: the overlap is split evenly, whatever the stability of the tops.
SeparateEvenly(ts, c) ==
  LET delta == VSub(ts[c.b].pos, ts[c.a].pos)
      dist == Length(delta)
      overlap == stats[c.a].radius + stats[c.b].radius - dist
      sep_n == VDivS(delta, dist)
  IN  IF dist > 0 /\ overlap > 0
      THEN [ts EXCEPT ![c.a].pos = VSub(@, VScale(sep_n, overlap \div 2)),
                      ![c.b].pos = VAdd(@, VScale(sep_n, overlap - overlap \div 2))]
      ELSE ts

\* Deviation: the impulse is taken from the size of the relative normal speed,
\* and one more, whether or not the tops still approach.
ResolveContactAlways(ts, c) ==
  LET e == Clamp(top_collisions_restitution, 0, FP)
      inv_mass_a == DivFP(FP, FP + Max(stats[c.a].stability, 0))
      inv_mass_b == DivFP(FP, FP + Max(stats[c.b].stability, 0))
      v_rel_n == Abs(Dot(VSub(ts[c.a].vel, ts[c.b].vel), c.normal)) + FP
      j == DivFP(MulFP(FP + e, v_rel_n), inv_mass_a + inv_mass_b)
  IN  [ts EXCEPT ![c.a].vel = VSub(@, VScale(c.normal, MulFP(j, inv_mass_a))),
                 ![c.b].vel = VAdd(@, VScale(c.normal, MulFP(j, inv_mass_b)))]

\* resolve_top_collisions: one contact applied to the tops
ResolveContact(ts, c) ==
  LET e == Clamp(top_collisions_restitution, 0, FP)
      a == c.a
      b == c.b
      inv_mass_a == DivFP(FP, FP + Max(stats[a].stability, 0))
      inv_mass_b == DivFP(FP, FP + Max(stats[b].stability, 0))
      inv_mass_sum == inv_mass_a + inv_mass_b
      n == c.normal
      v_rel == VSub(ts[a].vel, ts[b].vel)
      v_rel_n == Dot(v_rel, n)
      j == DivFP(MulFP(FP + e, v_rel_n), inv_mass_sum)
      vel_a == VSub(ts[a].vel, VScale(n, MulFP(j, inv_mass_a)))
      vel_b == VAdd(ts[b].vel, VScale(n, MulFP(j, inv_mass_b)))
      delta == VSub(ts[b].pos, ts[a].pos)
      dist == Length(delta)
      min_dist == stats[a].radius + stats[b].radius
      overlap == min_dist - dist
      sep_n == VDivS(delta, dist)
      move_a == MulFP(overlap, DivFP(inv_mass_a, inv_mass_sum))
      move_b == MulFP(overlap, DivFP(inv_mass_b, inv_mass_sum))
      separate == dist < min_dist /\ dist > 0
  IN  IF a = b \/ a \notin TopIds \/ b \notin TopIds THEN ts
      ELSE IF inv_mass_sum <= 0 THEN ts
      ELSE IF v_rel_n <= 0 THEN ts
      ELSE [ts EXCEPT
              ![a].vel = vel_a,
              ![b].vel = vel_b,
              ![a].pos = IF separate THEN VSub(@, VScale(sep_n, move_a)) ELSE @,
              ![b].pos = IF separate THEN VAdd(@, VScale(sep_n, move_b)) ELSE @]

RECURSIVE ResolveContacts(_, _)
ResolveContacts(ts, cs) ==
  IF cs = <<>> THEN ts ELSE ResolveContacts(ResolveContact(ts, Head(cs)), Tail(cs))

resolve_top_collisions ==
  /\ At("resolve_top_collisions")
  /\ tops' = ResolveContacts(tops, Unread("resolve_top_collisions"))
  /\ cursor' = ReadAll({"resolve_top_collisions"})
  /\ Done("resolve_top_collisions")
  /\ UNCHANGED <<projectiles, obstacles, zones, next_entity, events, collisions>>

\* ---------------------------------------------------------------- lifecycle

\* the events of one type among those a reader has not read
OfType(evs, type) == LET Is(ev) == ev.type = type IN Retain(evs, Is)

\* obstacle::spawn_projectiles: the entity spawned for one event (born and life
\* are observation only: the time of the spawn and the lifetime it started with)
SpawnedProjectile(ev, id) ==
  [id |-> id, pos |-> ev.position, vel |-> VScale(ev.direction, ev.speed),
   radius |-> ev.radius, owner |-> ev.src, damage |-> ev.damage,
   lifetime |-> ev.lifetime, born |-> now, life |-> ev.lifetime]

\* The observation of the projectiles ps that the system `by` despawns.
Despawned(ps, by) ==
  {[id |-> p.id, by |-> by, age |-> now - p.born, life |-> p.life] : p \in ps}

spawn_projectiles ==
  /\ At("spawn_projectiles")
  /\ LET evs == OfType(Unread("spawn_projectiles"), "SpawnProjectile")
     IN  /\ projectiles' = projectiles \o
              [k \in DOMAIN evs |-> SpawnedProjectile(evs[k], next_entity + k - 1)]
         /\ next_entity' = next_entity + Len(evs)
  /\ cursor' = ReadAll({"spawn_projectiles"})
  /\ Done("spawn_projectiles")
  /\ UNCHANGED <<tops, obstacles, zones, events, collisions>>

\* despawn_projectiles_outside_arena: the test of one projectile
OutsideArena(p) == Length(p.pos) > arena_r + p.radius

despawn_projectiles_outside_arena ==
  /\ At("despawn_projectiles_outside_arena")
  /\ LET Inside(p) == ~OutsideArena(p) IN projectiles' = Retain(projectiles, Inside)
  /\ seen' = Observe([seen EXCEPT !.gone = @ \cup
       Despawned({p \in Range(projectiles) : OutsideArena(p)},
                 "despawn_projectiles_outside_arena")])
  /\ Finish("despawn_projectiles_outside_arena")
  /\ UNCHANGED <<tops, obstacles, zones, next_entity, queues>>

\* cleanup_ttl: the tests of one obstacle (only one with ExpiresAt is queried)
\* and of one projectile
ObstacleExpired(o) == o.expires_at # None /\ now >= Unwrap(o.expires_at)
ProjectileExpired(p) == is_expired(p.lifetime)

cleanup_ttl ==
  /\ At("cleanup_ttl")
  /\ LET Live(o) == ~ObstacleExpired(o) IN obstacles' = Retain(obstacles, Live)
  /\ LET Live(p) == ~ProjectileExpired(p) IN projectiles' = Retain(projectiles, Live)
  /\ seen' = Observe([seen EXCEPT !.gone = @ \cup
       Despawned({p \in Range(projectiles) : ProjectileExpired(p)}, "cleanup_ttl")
       \cup {[id |-> o.id, by |-> "cleanup_ttl", age |-> 0, life |-> 0] :
               o \in {x \in Range(obstacles) : ObstacleExpired(x)}}])
  /\ Finish("cleanup_ttl")
  /\ UNCHANGED <<tops, zones, next_entity, queues>>

\* Deviation: the DespawnEntity events are read and not acted on.
DespawnRequestsDropped == {}

\* handle_despawn_events: the entities named by the unread DespawnEntity events
\* (try_despawn takes any entity: a named top would be despawned like a
\* projectile or an obstacle, which the observation records)
DespawnRequests ==
  LET evs == OfType(Unread("handle_despawn_events"), "DespawnEntity")
  IN  {evs[k].entity : k \in DOMAIN evs}

handle_despawn_events ==
  /\ At("handle_despawn_events")
  /\ LET Kept(x) == x.id \notin DespawnRequests
     IN  /\ projectiles' = Retain(projectiles, Kept)
         /\ obstacles' = Retain(obstacles, Kept)
  /\ cursor' = ReadAll({"handle_despawn_events"})
  /\ seen' = Observe([seen EXCEPT !.gone = @ \cup
       Despawned({p \in Range(projectiles) : p.id \in DespawnRequests},
                 "handle_despawn_events")
       \cup {[id |-> e, by |-> "handle_despawn_events", age |-> 0, life |-> 0] :
               e \in DespawnRequests \cap
                     (TopIds \cup {obstacles[k].id : k \in DOMAIN obstacles})}])
  /\ Finish("handle_despawn_events")
  /\ UNCHANGED <<tops, zones, next_entity, events, collisions>>

\* play_sound_effects: reads both queues, spawns only audio players
play_sound_effects ==
  /\ At("play_sound_effects")
  /\ cursor' = ReadAll({"play_sound_effects", "play_sound_effects_c"})
  /\ Done("play_sound_effects")
  /\ UNCHANGED <<tops, projectiles, obstacles, zones, next_entity, events, collisions>>

\* ---------------------------------------------------------------- specification

Next ==
  \/ StateTransition \/ BeginTick \/ EndFixedLoop
  \/ check_all_confirmed \/ check_game_over \/ UpdateGameOver
  \/ speed_boost_system \/ speed_boost_tick \/ damage_boost_system
  \/ gravity_device_system \/ integrate_physics \/ integrate_projectiles
  \/ spin_drain \/ tick_control_state \/ tick_melee_trackers
  \/ wall_reflection \/ static_obstacle_bounce
  \/ detect_collisions
  \/ generate_collision_damage \/ detect_melee_hits \/ fire_ranged_weapons
  \/ process_hooks
  \/ apply_damage_events \/ apply_control_events \/ resolve_top_collisions
  \/ spawn_projectiles
  \/ despawn_projectiles_outside_arena \/ cleanup_ttl \/ handle_despawn_events
  \/ play_sound_effects

Spec == Init /\ [][Next]_vars

\* ---------------------------------------------------------------- drawn states

\* Ticks run from a drawn state, and the speed drawn for a moving top.
DrawnTicks == 3
DrawnSpeed == 3000

DrawnBuilds ==
  { <<DefaultBladeBuild, DefaultBladeBuild>>, <<BrawlerBuild, DefaultBladeBuild>>,
    <<BrawlerBuild, ScoutBuild>>, <<TurretBuild, BrawlerBuild>>,
    <<DefaultBlasterBuild, TurretBuild>> }
\* distance between the two rims: overlapping, just touching, apart
DrawnGaps == {-60, 0, 100, 600}
\* velocities along the line of centres: approaching, receding, both at rest,
\* moving together, one moving
DrawnVelocities ==
  { <<DrawnSpeed, -DrawnSpeed>>, <<-DrawnSpeed, DrawnSpeed>>, <<0, 0>>,
    <<DrawnSpeed, DrawnSpeed>>, <<DrawnSpeed, 0>> }
\* remaining stun and slow time of P2
DrawnTimers == {0, 5, 25, 300}
\* SpinHp of P2, as a part of its spin_hp_max or a last rest
DrawnHp(max) == {max, 60}

\* A battle under way: the components of the two tops drawn from the sets above,
\* at the start of a frame's fixed ticks.
InitDrawn ==
  \E b \in DrawnBuilds, g \in DrawnGaps, v \in DrawnVelocities, r \in DrawnTimers :
  \E h \in DrawnHp(Effective(b[2]).spin_hp_max) :
    /\ phase = "Battle"
    /\ next_state = Unchanged
    /\ frame = "FixedUpdate"
    /\ pc = 0
    /\ now = (MaxTicks - DrawnTicks) * dt
    /\ arena_r = DefaultArena.arena_radius
    /\ build = (1 :> b[1]) @@ (2 :> b[2])
    /\ stats = (1 :> Effective(b[1])) @@ (2 :> Effective(b[2]))
    /\ tops = (1 :> [SpawnTop(0, 0, 0, Effective(b[1])) EXCEPT !.vel = <<v[1], 0>>])
              @@ (2 :> [SpawnTop(Effective(b[1]).radius + Effective(b[2]).radius + g,
                                 PI_FP, PI_FP, Effective(b[2]))
                          EXCEPT !.vel = <<v[2], 0>>, !.hp = h,
                                 !.stun_remaining = r, !.slow_remaining = r,
                                 !.slow_ratio = IF r > 0 THEN 300 ELSE 0])
    /\ projectiles = <<>>
    /\ obstacles = MapObstacles(DefaultArena)
    /\ zones = MapZones(DefaultArena)
    /\ next_entity = 3
    /\ events = <<>>
    /\ collisions = <<>>
    /\ cursor = [c \in EventReaders \cup CollisionReaders |-> 0]
    /\ log = <<>>
    /\ seen = SeenInit(tops)

NextBattle ==
  \/ StateTransition \/ BeginTick \/ EndFixedLoop
  \/ check_game_over \/ UpdateGameOver
  \/ speed_boost_system \/ speed_boost_tick \/ damage_boost_system
  \/ gravity_device_system \/ integrate_physics \/ integrate_projectiles
  \/ spin_drain \/ tick_control_state \/ tick_melee_trackers
  \/ wall_reflection \/ static_obstacle_bounce
  \/ detect_collisions
  \/ generate_collision_damage \/ detect_melee_hits \/ fire_ranged_weapons
  \/ process_hooks
  \/ apply_damage_events \/ apply_control_events \/ resolve_top_collisions
  \/ spawn_projectiles
  \/ despawn_projectiles_outside_arena \/ cleanup_ttl \/ handle_despawn_events
  \/ play_sound_effects

SpecDrawn == InitDrawn /\ [][NextBattle]_vars

\* ---------------------------------------------------------------- drawn field

\* The time a speed boost lasts: the earliest a boost of this battle runs out.
FieldStart == MapZones(SmallArena).speed[1].duration

\* Where P1 is and how it moves, in SmallArena, for a top of radius r: beyond the
\* wall moving inward, reaching the wall moving outward, running into the
\* obstacle at the centre, at rest on the centre of the obstacle, leaving the
\* speed-boost zone, at rest in the damage-boost zone, crossing the gravity field,
\* at rest where P2 is, arriving where P2 is, arriving on the centre of the
\* obstacle.
FieldCases(r) ==
  LET edge == SmallArena.arena_radius - r
      sz == MapZones(SmallArena).speed[1]
      dz == MapZones(SmallArena).damage[1]
      ob == MapObstacles(SmallArena)[1]
  IN  { [pos |-> <<edge + 80, 0>>, vel |-> <<-DrawnSpeed, 0>>],
        [pos |-> <<edge - 20, 0>>, vel |-> <<DrawnSpeed, 0>>],
        [pos |-> <<ob.pos[1] - (r + ob.radius) - 20, ob.pos[2]>>, vel |-> <<DrawnSpeed, 0>>],
        [pos |-> ob.pos, vel |-> ZERO],
        [pos |-> <<sz.pos[1], sz.pos[2] - (r + sz.radius) + 30>>, vel |-> <<0, -DrawnSpeed>>],
        [pos |-> dz.pos, vel |-> ZERO],
        [pos |-> <<1200, 1500>>, vel |-> <<-DrawnSpeed, 0>>],
        [pos |-> <<-1500, -1500>>, vel |-> ZERO],
        [pos |-> VSub(<<-1500, -1500>>, VScale(<<DrawnSpeed, 0>>, dt)), vel |-> <<DrawnSpeed, 0>>],
        [pos |-> VSub(ob.pos, VScale(<<0, DrawnSpeed>>, dt)), vel |-> <<0, DrawnSpeed>>] }
\* SpeedBoostEffect of P1: never boosted, a boost about to run out, a fresh boost
FieldBoosts ==
  LET sz == MapZones(SmallArena).speed[1]
  IN  { <<0, FP>>, <<FieldStart + 2 * dt, sz.multiplier>>,
        <<FieldStart + sz.duration, sz.multiplier>> }
FieldBuilds ==
  { <<DefaultBladeBuild, BrawlerBuild>>, <<DefaultBlasterBuild, TurretBuild>>,
    <<ScoutBuild, BrawlerBuild>>, <<DefaultBladeBuild, PusherBuild>>,
    <<LoneSpreadBuild, DefaultBladeBuild>> }

\* A battle under way in SmallArena, at the start of a frame's fixed ticks: P1
\* drawn from the cases above, P2 at rest away from it.
InitField ==
  \E b \in FieldBuilds, sb \in FieldBoosts :
  \E c \in FieldCases(Effective(b[1]).radius), h \in DrawnHp(Effective(b[2]).spin_hp_max) :
    /\ phase = "Battle"
    /\ next_state = Unchanged
    /\ frame = "FixedUpdate"
    /\ pc = 0
    /\ now = FieldStart
    /\ arena_r = SmallArena.arena_radius
    /\ build = (1 :> b[1]) @@ (2 :> b[2])
    /\ stats = (1 :> Effective(b[1])) @@ (2 :> Effective(b[2]))
    /\ tops = (1 :> [SpawnTop(c.pos[1], 0, 0, Effective(b[1]))
                       EXCEPT !.pos = c.pos, !.vel = c.vel,
                              !.sb_expires_at = sb[1], !.sb_multiplier = sb[2]])
              @@ (2 :> [SpawnTop(-1500, PI_FP, PI_FP, Effective(b[2]))
                          EXCEPT !.pos = <<-1500, -1500>>, !.hp = h])
    /\ projectiles = <<>>
    /\ obstacles = MapObstacles(SmallArena)
    /\ zones = MapZones(SmallArena)
    /\ next_entity = 3 + Len(SmallArena.placements)
    /\ events = <<>>
    /\ collisions = <<>>
    /\ cursor = [r \in EventReaders \cup CollisionReaders |-> 0]
    /\ log = <<>>
    /\ seen = [SeenInit(tops) EXCEPT !.until = FieldStart + DrawnTicks * dt]

SpecField == InitField /\ [][NextBattle]_vars

\* ---------------------------------------------------------------- drawn builds

\* Ticks run from a battle of drawn builds.
StatTicks == 3
\* control_reduction of a top and of a trait screw, as the part editor stores
\* them (read_f32 takes any number): -0.25, 0, 0.05, 0.1, 0.2, 0.5, 1, 2
Reductions == {-150, 0, 30, 60, 120, 300, 600, 1200}
\* What a player may type for the move speed of a top (-1, 12, 40), the
\* factors of a chassis (-1, 0, 1, 3), the damage factors of a screw (-1, 1,
\* 15) and the SpinHp a screw adds (-100, 0).
TypedSpeeds == {-FP, 12 * FP, 40 * FP}
TypedFactors == {-FP, 0, FP, 3 * FP}
TypedDamageFactors == {-FP, FP, 15 * FP}
TypedHpAdds == {-100 * FP, 0}
\* ScoutBuild with the control reductions drawn, or with its stats drawn
StatBuilds ==
  { [ScoutBuild EXCEPT !.top.control_reduction = b, !.screw.control_reduction = r] :
      b \in Reductions, r \in Reductions }
  \cup
  { [ScoutBuild EXCEPT !.top.move_speed = ms, !.chassis.move_speed_mul = f,
                       !.chassis.radius_mul = f, !.chassis.accel_mul = f,
                       !.screw.damage_out_mult = d, !.screw.damage_in_mult = d,
                       !.screw.spin_hp_max_add = h] :
      ms \in TypedSpeeds, f \in TypedFactors, d \in TypedDamageFactors, h \in TypedHpAdds }

\* setup_arena has run for BrawlerBuild against a drawn build in SmallArena.
InitStats ==
  \E b2 \in StatBuilds :
    /\ phase = "Aiming"
    /\ next_state = Unchanged
    /\ frame = "Update"
    /\ pc = 0
    /\ now = 0
    /\ arena_r = SmallArena.arena_radius
    /\ build = (1 :> BrawlerBuild) @@ (2 :> b2)
    /\ stats = (1 :> Effective(BrawlerBuild)) @@ (2 :> Effective(b2))
    /\ tops = (1 :> SpawnTop(-3 * FP, 0, 0, Effective(BrawlerBuild)))
              @@ (2 :> SpawnTop(3 * FP, PI_FP, PI_FP, Effective(b2)))
    /\ projectiles = <<>>
    /\ obstacles = MapObstacles(SmallArena)
    /\ zones = MapZones(SmallArena)
    /\ next_entity = 3 + Len(SmallArena.placements)
    /\ events = <<>>
    /\ collisions = <<>>
    /\ cursor = [r \in EventReaders \cup CollisionReaders |-> 0]
    /\ log = <<>>
    /\ seen = [SeenInit(tops) EXCEPT !.until = StatTicks * dt]

SpecStats == InitStats /\ [][Next]_vars

\* ---------------------------------------------------------------- properties

Last(seq) == seq[Len(seq)]
\* the system that has just run, if the state is inside or at the end of a tick
JustRan(name) == log # <<>> /\ Last(log) = name
\* the messages of kind `type` written so far in the running tick
Written(type) == OfType(events, type)

\* C1: in every reachable state of a battle, whatever damage has been applied,
\* the SpinHp of every top is at least 0 and at most its effective spin_hp_max.
C1_SpinHpInRange ==
  \A i \in TopIds : 0 <= tops[i].hp /\ tops[i].hp <= stats[i].spin_hp_max

\* C1 witness: apply_damage_events has just taken a top to 0 with an event of
\* this tick whose final amount is positive.
C1_Witness ==
  /\ JustRan("apply_damage_events")
  /\ \E i \in TopIds :
       /\ tops[i].hp = 0
       /\ \E k \in DOMAIN events :
            /\ events[k].type = "DealDamage"
            /\ events[k].dst = i
            /\ FinalAmount(events[k]) > 0

\* The systems that write a velocity of a top.
VelocityMutators ==
  {"launch_tops", "gravity_device_system", "wall_reflection", "static_obstacle_bounce",
   "resolve_top_collisions"}
\* Rounding allowed on the speed of a top: a twentieth of its move_speed and a
\* tenth of a unit per second.
SpeedTolerance(i) == stats[i].move_speed \div 20 + FP \div 10

\* C2: after every mutation of a velocity (launch_tops, gravity_device_system,
\* wall_reflection, static_obstacle_bounce, resolve_top_collisions) the speed of
\* every top is at most its effective move_speed.
C2_SpeedWithinMoveSpeed ==
  (log # <<>> /\ Last(log) \in VelocityMutators) =>
    \A i \in TopIds : Length(tops[i].vel) <= stats[i].move_speed + SpeedTolerance(i)

\* The phase of the tick a system belongs to, in the order of the claim: zones,
\* integration, reflection, detection, generation, application, cleanup.
PhaseOf(name) ==
  CASE name \in {"speed_boost_system", "speed_boost_tick", "damage_boost_system",
                 "gravity_device_system"} -> 1
    [] name \in {"integrate_physics", "integrate_projectiles", "spin_drain",
                 "tick_control_state", "tick_melee_trackers"} -> 2
    [] name \in {"wall_reflection", "static_obstacle_bounce"} -> 3
    [] name = "detect_collisions" -> 4
    [] name \in {"generate_collision_damage", "detect_melee_hits",
                 "fire_ranged_weapons", "process_hooks"} -> 5
    [] name \in {"apply_damage_events", "apply_control_events",
                 "resolve_top_collisions", "spawn_projectiles"} -> 6
    [] name \in {"despawn_projectiles_outside_arena", "cleanup_ttl",
                 "handle_despawn_events", "play_sound_effects"} -> 7
    [] OTHER -> 0
\* The systems that write DealDamage or ApplyControl events.
EventWriters ==
  {"wall_reflection", "detect_collisions", "generate_collision_damage",
   "detect_melee_hits"}

\* C3: in every tick of the Battle phase the systems run phase by phase in the
\* order zones, integration, reflection, detection, generation, application,
\* cleanup, each system once; and when apply_damage_events or apply_control_events
\* has run, every system that writes such events had finished and every event of
\* the tick had been written before it read.
C3_PhaseOrder ==
  /\ \A j, k \in DOMAIN log : j < k =>
       PhaseOf(log[j]) < PhaseOf(log[k]) \/ (PhaseOf(log[j]) = PhaseOf(log[k]) /\ log[j] # log[k])
  /\ (pc = 0 /\ \E k \in DOMAIN log : PhaseOf(log[k]) > 0) =>
       {PhaseOf(log[k]) : k \in DOMAIN log} = 1..7
  /\ \A r \in {"apply_damage_events", "apply_control_events"} :
       r \in Range(log) =>
         /\ EventWriters \subseteq Range(log)
         /\ cursor[r] = Len(events)

\* C3 witness: a tick has run to its end in which both a DealDamage and an
\* ApplyControl event were written and applied.
C3_Witness ==
  /\ pc = 0
  /\ log = Schedule
  /\ Written("DealDamage") # <<>>
  /\ Written("ApplyControl") # <<>>
  /\ \E i \in TopIds : tops[i].stun_remaining > 0 \/ tops[i].slow_remaining > 0

\* The same events in the order f, a permutation of their positions.
Permuted(evs, f) == [k \in DOMAIN evs |-> evs[f[k]]]

\* C4: whatever DealDamage events are queued when apply_damage_events runs, the
\* SpinHp of every top after them is the same for every order of applying them.
C4_OrderIndependent ==
  At("apply_damage_events") =>
    LET evs == OfType(Unread("apply_damage_events"), "DealDamage")
        hp == [i \in TopIds |-> tops[i].hp]
    IN  \A f \in Permutations(DOMAIN evs) :
          ApplyDamageEvents(hp, Permuted(evs, f)) = ApplyDamageEvents(hp, evs)

\* C4 witness: apply_damage_events is about to apply two events to a top that
\* survives either of them alone and is at 0 after them all.
C4_Witness ==
  /\ At("apply_damage_events")
  /\ LET evs == OfType(Unread("apply_damage_events"), "DealDamage")
         hp == [i \in TopIds |-> tops[i].hp]
     IN  \E i \in TopIds : \E j, k \in DOMAIN evs :
           /\ j # k
           /\ evs[j].dst = i /\ evs[k].dst = i
           /\ FinalAmount(evs[j]) > 0 /\ FinalAmount(evs[k]) > 0
           /\ hp[i] > FinalAmount(evs[j]) /\ hp[i] > FinalAmount(evs[k])
           /\ ApplyDamageEvents(hp, evs)[i] = 0

\* the events of this tick that are collision damage
CollisionDamageWritten ==
  {k \in DOMAIN events : events[k].type = "DealDamage" /\ events[k].kind = "Collision"}

\* C5: once generate_collision_damage has run, every contact of the tick with
\* impulse I has exactly two Collision DealDamage events, one from a to b and one
\* from b to a, both of amount collision_damage_k * I, and there are no others.
C5_TwoCollisionEvents ==
  "generate_collision_damage" \in Range(log) =>
    /\ Cardinality(CollisionDamageWritten) = 2 * Len(collisions)
    /\ \A n \in DOMAIN collisions :
         LET c == collisions[n]
             From(x, y) == {k \in CollisionDamageWritten :
                              events[k].src = Some(x) /\ events[k].dst = y}
         IN  /\ Cardinality(From(c.a, c.b)) = 1
             /\ Cardinality(From(c.b, c.a)) = 1
             /\ \A k \in From(c.a, c.b) \cup From(c.b, c.a) :
                  events[k].amount = MulFP(collision_damage_k, c.impulse)

\* C5 witness: the damage of a contact between tops of different stability
\* has been written.
C5_Witness ==
  /\ JustRan("generate_collision_damage")
  /\ collisions # <<>>
  /\ stats[1].stability # stats[2].stability
  /\ Cardinality(CollisionDamageWritten) = 2

\* distance between the centres, and the speed at which a approaches b
CentreDistance == Distance(tops[1].pos, tops[2].pos)
ApproachSpeed ==
  IF CentreDistance > 0
  THEN Dot(VSub(tops[1].vel, tops[2].vel),
           VDivS(VSub(tops[2].pos, tops[1].pos), CentreDistance))
  ELSE 0

\* C6: when detect_collisions has run, there is a contact of the pair exactly if
\* the centres are closer than r_a + r_b and a approaches b at a speed > 0; the
\* pair has at most one contact in the tick, from a to b, with that speed as its
\* impulse.
C6_ContactIffApproaching ==
  JustRan("detect_collisions") =>
    /\ Len(collisions) <= 1
    /\ (collisions # <<>>) <=>
         (CentreDistance < stats[1].radius + stats[2].radius /\ ApproachSpeed > 0)
    /\ \A n \in DOMAIN collisions :
         /\ collisions[n].a = 1 /\ collisions[n].b = 2
         /\ collisions[n].impulse = ApproachSpeed

\* C6 witness: detect_collisions has run on a pair that approaches with the rims
\* just touching, and wrote no contact.
C6_Witness ==
  /\ JustRan("detect_collisions")
  /\ CentreDistance = stats[1].radius + stats[2].radius
  /\ ApproachSpeed > 0
  /\ collisions = <<>>

\* hit_cooldown of the melee weapon of attacker a
HitCooldown(a) == Unwrap(build[a].weapon.melee).hit_cooldown

\* C7: between two melee hits of an attacker on its target the trackers have
\* accumulated at least hit_cooldown; and once they have (or before any hit) the
\* attacker can hit the target.
C7_MeleeCooldown ==
  \A a \in TopIds : build[a].weapon.melee # None =>
    /\ seen.hit[a].count >= 2 => seen.hit[a].gap >= HitCooldown(a)
    /\ (seen.hit[a].since < 0 \/ seen.hit[a].since >= HitCooldown(a)) =>
         can_hit(tops[a].cooldowns, 3 - a)

\* C7 witness: an attacker with a cooldown > 0 has hit its target a second
\* time, at the first tick the cooldown allows.
C7_Witness ==
  \E a \in TopIds :
    /\ build[a].weapon.melee # None
    /\ HitCooldown(a) > 0
    /\ seen.hit[a].count >= 2
    /\ seen.hit[a].gap = HitCooldown(a)

\* the entities alive, and those a DespawnEntity event of this tick names
LiveIds ==
  {projectiles[k].id : k \in DOMAIN projectiles} \cup {obstacles[k].id : k \in DOMAIN obstacles}
DespawnSignalled ==
  {events[k].entity : k \in {j \in DOMAIN events : events[j].type = "DespawnEntity"}}

ReducedDurations(i, kind) ==
  LET evs == OfType(Unread("apply_control_events"), "ApplyControl")
  IN  {Max(MulFP(evs[k].control.duration, Max(stats[i].control_multiplier, 0)), 0) :
         k \in {j \in DOMAIN evs : evs[j].dst = i /\ evs[j].control.kind = kind}}

\* C9: apply_control_events leaves each timer at the greatest of what remained
\* and the durations d * max(m, 0) of the new effects, and never at the sum of
\* what remained and a new duration.
C9_ControlNeverStacks ==
  [][At("apply_control_events") =>
       \A i \in TopIds :
         /\ tops'[i].stun_remaining =
              SetMax({tops[i].stun_remaining} \cup ReducedDurations(i, "Stun"))
         /\ tops'[i].slow_remaining =
              SetMax({tops[i].slow_remaining} \cup ReducedDurations(i, "Slow"))
         /\ \A d \in ReducedDurations(i, "Stun") :
              (d > 0 /\ tops[i].stun_remaining > 0) =>
                tops'[i].stun_remaining # tops[i].stun_remaining + d
         /\ \A d \in ReducedDurations(i, "Slow") :
              (d > 0 /\ tops[i].slow_remaining > 0) =>
                tops'[i].slow_remaining # tops[i].slow_remaining + d]_vars

\* C9 witness: apply_control_events has run on a Stun shorter than the stun time
\* that remained, and the timer kept its value.
C9_Witness ==
  /\ JustRan("apply_control_events")
  /\ \E i \in TopIds : \E k \in DOMAIN events :
       /\ events[k].type = "ApplyControl"
       /\ events[k].dst = i
       /\ events[k].control.kind = "Stun"
       /\ MulFP(events[k].control.duration, Max(stats[i].control_multiplier, 0)) > 0
       /\ tops[i].stun_remaining >
            MulFP(events[k].control.duration, Max(stats[i].control_multiplier, 0))

CeilDiv(a, b) == (a + b - 1) \div b

\* C10: the control timers are never negative, and a timer an event set to r
\* (or that started at r) is running during the first ceil(r / dt) calls of
\* tick_control_state less one and expired from call ceil(r / dt) on, until an
\* event sets it again.
C10_ControlTimersExpire ==
  \A i \in TopIds :
    /\ tops[i].stun_remaining >= 0
    /\ tops[i].slow_remaining >= 0
    /\ is_stunned(tops[i]) <=> seen.stun[i].ticks < CeilDiv(seen.stun[i].set, dt)
    /\ is_slowed(tops[i]) <=> seen.slow[i].ticks < CeilDiv(seen.slow[i].set, dt)

\* C10 witness: a stun of a duration that is no multiple of dt has run out at
\* the call ceil(r / dt), and the top is neutral again.
C10_Witness ==
  \E i \in TopIds :
    /\ seen.stun[i].set > 0
    /\ seen.stun[i].set % dt # 0
    /\ seen.stun[i].ticks = CeilDiv(seen.stun[i].set, dt)
    /\ ~is_stunned(tops[i])
    /\ ~is_slowed(tops[i])

\* the events the system that ran last has written
NewEvents == Drop(events, seen.nev)
\* the Wall DealDamage events among them that target top i
NewWallEvents(i) ==
  {k \in DOMAIN NewEvents : /\ NewEvents[k].type = "DealDamage"
                            /\ NewEvents[k].kind = "Wall"
                            /\ NewEvents[k].dst = i}
\* what wall_reflection started from, for top i: the distance of the centre past
\* the boundary (arena radius - top radius) and the outward normal speed v.n
PastBoundary(i) == Length(seen.before[i].pos) - (arena_r - stats[i].radius)
OutwardSpeed(i) ==
  Dot(seen.before[i].vel, VDivS(seen.before[i].pos, Length(seen.before[i].pos)))
\* Rounding allowed on the distance of a corrected position from the centre.
PushTolerance == FP \div 200

\* C11: when wall_reflection has run, a top that was beyond the boundary is on
\* the boundary; if it was moving outward (v.n > 0) its velocity is
\* damping * (v - 2 (v.n) n) and one Wall DealDamage event targets it; if it was
\* moving inward or along the wall its velocity is unchanged and no Wall event
\* targets it; a top within the boundary is left alone.
C11_WallReflectOutwardOnly ==
  JustRan("wall_reflection") =>
    \A i \in TopIds :
      LET v == seen.before[i].vel
          n == VDivS(seen.before[i].pos, Length(seen.before[i].pos))
          damping == Clamp(wall_bounce_damping, 0, FP)
      IN  IF PastBoundary(i) > 0
          THEN /\ Abs(Length(tops[i].pos) - (arena_r - stats[i].radius)) <= PushTolerance
               /\ IF OutwardSpeed(i) > 0
                  THEN /\ tops[i].vel = VScale(VSub(v, VScale(n, 2 * OutwardSpeed(i))), damping)
                       /\ Cardinality(NewWallEvents(i)) = 1
                  ELSE /\ tops[i].vel = v
                       /\ NewWallEvents(i) = {}
          ELSE /\ tops[i].pos = seen.before[i].pos
               /\ tops[i].vel = v
               /\ NewWallEvents(i) = {}

\* C11 witness: wall_reflection has run on a moving top that was beyond the
\* boundary and not moving outward, and left its velocity alone.
C11_Witness ==
  /\ JustRan("wall_reflection")
  /\ \E i \in TopIds :
       /\ PastBoundary(i) > 0
       /\ OutwardSpeed(i) <= 0
       /\ seen.before[i].vel # ZERO
       /\ tops[i].vel = seen.before[i].vel
       /\ NewWallEvents(i) = {}

ProjectileIds == {projectiles[k].id : k \in DOMAIN projectiles}
\* the Projectile DealDamage events among the events of the tick
ProjectileDamageWritten ==
  {k \in DOMAIN events : events[k].type = "DealDamage" /\ events[k].kind = "Projectile"}

LifeTicks(L) == IF L > 0 THEN CeilDiv(L, dt) ELSE 0

\* C14: a projectile spawned with lifetime L is there for no more than
\* ceil(L/dt) fixed ticks after the tick of its spawn; and once the cleanup of a
\* tick has run, a projectile left is younger than that, unexpired, within
\* arena radius + its radius of the centre, and has not hit a top.
C14_ProjectilesDestroyed ==
  \A k \in DOMAIN projectiles :
    LET p == projectiles[k]
    IN  /\ now - p.born <= LifeTicks(p.life) * dt
        /\ "handle_despawn_events" \in Range(log) =>
             /\ now - p.born < LifeTicks(p.life) * dt
             /\ p.lifetime > 0
             /\ Length(p.pos) <= arena_r + p.radius
             /\ p.id \notin Range(seen.hits)

\* the ControlState of a top
ControlOf(t) == <<t.stun_remaining, t.slow_remaining, t.slow_ratio>>

\* C15: a top whose SpinHp is 0 when apply_damage_events or apply_control_events
\* starts keeps SpinHp 0, and apply_control_events leaves its ControlState as
\* it was.
C15_DeadTopExcluded ==
  \A i \in TopIds :
    /\ JustRan("apply_damage_events") /\ seen.before[i].hp = 0 => tops[i].hp = 0
    /\ JustRan("apply_control_events") /\ seen.before[i].hp = 0 =>
         /\ tops[i].hp = 0
         /\ ControlOf(tops[i]) = ControlOf(seen.before[i])

\* the map of the battle (the maps differ in their radius)
BattleMap == CHOOSE m \in Maps : m.arena_radius = arena_r

\* C16: in a battle the two tops are always there and nothing that was
\* despawned is a top or an obstacle of the map, whatever the SpinHp of the
\* tops: the obstacles are those setup_arena spawned, and what the cleanup
\* systems removed are projectiles.
C16_TopsNeverDespawned ==
  /\ DOMAIN tops = TopIds
  /\ obstacles = MapObstacles(BattleMap)
  /\ \A g \in seen.gone :
       /\ g.id \notin TopIds
       /\ g.id \notin {obstacles[k].id : k \in DOMAIN obstacles}
       /\ g.by \in {"cleanup_ttl", "despawn_projectiles_outside_arena",
                    "handle_despawn_events"}

\* a top's SpinHp is 0 when the cleanup of a tick has run and removed a
\* projectile that hit, in a map with an obstacle
C16_Witness ==
  /\ JustRan("handle_despawn_events")
  /\ \E i \in TopIds : tops[i].hp = 0
  /\ \E g \in seen.gone : g.by = "handle_despawn_events"
  /\ obstacles # <<>>

RECURSIVE RatioProduct(_)
\* the product of (1 + r) over the ratios rs
RatioProduct(rs) ==
  IF rs = <<>> THEN FP ELSE MulFP(RatioProduct(SubSeq(rs, 1, Len(rs) - 1)),
                                  FP + rs[Len(rs)])

\* max(0, 1 - (C - 1)) with C the product over the sources times 1 + base
StackedMultiplier(rs, base) ==
  LET C == MulFP(RatioProduct(rs), FP + base)
      m == FP - (C - FP)
  IN  IF m > 0 THEN m ELSE 0

\* C17: the control_multiplier of every top is max(0, 1 - (C - 1)), C being
\* (1 + base.control_reduction) times the product of (1 + r) over the control
\* reduction sources of its merged modifiers; it is never negative; and for the
\* sources 0.2 and 0.1 with base 0.05 compute_effective gives 0.614.
C17_ControlMultiplierStacks ==
  /\ \A i \in TopIds :
       LET mods == combined_modifiers(build[i])
       IN  /\ stats[i].control_multiplier =
                StackedMultiplier(mods.control_reduction_sources,
                                  build[i].top.control_reduction)
           /\ stats[i].control_multiplier >= 0
  /\ LET set == [ModifierSetNew EXCEPT !.control_reduction_sources = <<120, 60>>]
         base == [DefaultTop EXCEPT !.control_reduction = 30]
     IN  compute_effective(set, base).control_multiplier = (614 * FP) \div 1000

\* a top with a source and a base reduction that compound past full immunity
\* has had a stun applied, with multiplier 0
C17_Witness ==
  /\ JustRan("apply_control_events")
  /\ build[2].screw.control_reduction > 0
  /\ build[2].top.control_reduction > 0
  /\ stats[2].control_multiplier = 0
  /\ \E k \in DOMAIN events : events[k].type = "ApplyControl" /\ events[k].dst = 2

\* base * source.damage_out_mult * source damage boost * destination.damage_in_mult,
\* the source factors being 1 for an event without a source or with a source
\* that is not a top; at least 0
StatedAmount(ev) ==
  LET by_top == ev.src # None /\ Unwrap(ev.src) \in TopIds
      out_mult == IF by_top THEN stats[Unwrap(ev.src)].damage_out_mult ELSE FP
      boost == IF by_top THEN tops[Unwrap(ev.src)].db_multiplier ELSE FP
      amount == MulFP(MulFP(MulFP(ev.amount, out_mult), boost),
                      stats[ev.dst].damage_in_mult)
  IN  IF amount > 0 THEN amount ELSE 0

RECURSIVE StatedTotal(_, _)
\* the SpinHp left of hp by the DealDamage events evs that target top i
StatedTotal(evs, i) ==
  IF evs = <<>> THEN 0
  ELSE (IF Head(evs).dst = i THEN StatedAmount(Head(evs)) ELSE 0)
       + StatedTotal(Tail(evs), i)

\* C18: when apply_damage_events has run, the SpinHp of every top is what it
\* was less the stated amount of every DealDamage event of the tick that
\* targets it, and 0 if that is below 0.
C18_DamageAmount ==
  JustRan("apply_damage_events") =>
    \A i \in TopIds :
      LET left == seen.before[i].hp - StatedTotal(Written("DealDamage"), i)
      IN  tops[i].hp = IF left > 0 THEN left ELSE 0

\* apply_damage_events has applied an event of an obstacle and one of a top,
\* and has taken SpinHp from a top that is left with some
C18_Witness ==
  /\ JustRan("apply_damage_events")
  /\ \E k \in DOMAIN events :
       /\ events[k].type = "DealDamage" /\ events[k].src # None
       /\ Unwrap(events[k].src) \notin TopIds
       /\ StatedAmount(events[k]) > 0
  /\ \E k \in DOMAIN events :
       /\ events[k].type = "DealDamage" /\ events[k].src # None
       /\ Unwrap(events[k].src) \in TopIds
       /\ StatedAmount(events[k]) # events[k].amount
  /\ \E i \in TopIds : 0 < tops[i].hp /\ tops[i].hp < seen.before[i].hp

\* the Obstacle DealDamage events detect_collisions wrote for obstacle o and top i
ObstacleDamageWritten(o, i) ==
  LET Is(ev) == /\ ev.type = "DealDamage" /\ ev.kind = "Obstacle"
                /\ ev.src = Some(o.id) /\ ev.dst = i
  IN  Retain(NewEvents, Is)

\* C19: when detect_collisions has run, for every top that integrate_physics
\* left closer to a damage-on-contact obstacle than the sum of their radii there
\* is exactly one Obstacle DealDamage event of this tick for the pair, of amount
\* obstacle_damage.
C19_ObstacleDamageEveryTick ==
  JustRan("detect_collisions") =>
    \A i \in TopIds : \A k \in DOMAIN obstacles :
      LET o == obstacles[k]
      IN  /\ o.behavior = "DamageOnHit"
          /\ Distance(seen.moved[i], o.pos) < stats[i].radius + o.radius
          => /\ Len(ObstacleDamageWritten(o, i)) = 1
             /\ ObstacleDamageWritten(o, i)[1].amount = obstacle_damage

\* the SpeedBoostEffect of a top
BoostOf(t) == <<t.sb_multiplier, t.sb_expires_at>>

\* C20: speed_boost_system gives a top that overlaps a speed-boost zone the
\* multiplier of the zone and expires_at = now + duration, and leaves the effect
\* of a top that overlaps none; speed_boost_tick keeps the multiplier while
\* now < expires_at and makes it 1 once now >= expires_at; no other system
\* touches the effect, so a multiplier of 1 stays until the top is in a zone.
C20_SpeedBoostPersists ==
  \A i \in TopIds :
    LET inz == Overlapping(i, zones.speed)
        was == seen.before[i]
    IN  /\ JustRan("speed_boost_system") /\ inz # {} =>
             \E z \in inz : BoostOf(tops[i]) = <<z.multiplier, now + z.duration>>
        /\ JustRan("speed_boost_system") /\ inz = {} =>
             BoostOf(tops[i]) = BoostOf(was)
        /\ JustRan("speed_boost_tick") =>
             /\ tops[i].sb_expires_at = was.sb_expires_at
             /\ tops[i].sb_multiplier =
                  IF now < was.sb_expires_at THEN was.sb_multiplier ELSE FP
        /\ log # <<>> /\ Last(log) \notin {"speed_boost_system", "speed_boost_tick"} =>
             BoostOf(tops[i]) = BoostOf(was)
        /\ log # <<>> /\ "speed_boost_tick" \in Range(log) /\ inz = {} =>
             tops[i].sb_multiplier =
               IF now < tops[i].sb_expires_at THEN was.sb_multiplier ELSE FP

\* outside every zone, a boost that was kept in the tick before has run out in
\* this one: speed_boost_tick has made the multiplier 1
C20_Witness ==
  /\ JustRan("speed_boost_tick")
  /\ now > FieldStart + dt
  /\ Overlapping(1, zones.speed) = {}
  /\ seen.before[1].sb_multiplier > FP
  /\ now >= tops[1].sb_expires_at
  /\ tops[1].sb_multiplier = FP

\* C21: when damage_boost_system has run, the DamageBoostActive multiplier of
\* a top that overlaps no damage-boost zone is 1, whatever it was, and that of
\* a top in a zone is the multiplier of a zone it overlaps; no system that runs
\* after it in the tick changes the multiplier, so apply_damage_events uses the
\* one of its own tick.
C21_DamageBoostNotKept ==
  \A i \in TopIds :
    LET inz == Overlapping(i, zones.damage)
    IN  /\ JustRan("damage_boost_system") =>
             /\ inz = {} => tops[i].db_multiplier = FP
             /\ inz # {} => \E z \in inz : tops[i].db_multiplier = z.multiplier
        /\ "damage_boost_system" \in Range(log) /\ ~JustRan("damage_boost_system") =>
             tops[i].db_multiplier = seen.before[i].db_multiplier

\* a top that had the boost of a zone in the tick before is outside every
\* zone, and damage_boost_system has made its multiplier 1
C21_Witness ==
  /\ JustRan("damage_boost_system")
  /\ \E i \in TopIds :
       /\ Overlapping(i, zones.damage) = {}
       /\ seen.before[i].db_multiplier > FP
       /\ tops[i].db_multiplier = FP

\* 1 / (1 + stability) of top i
InvMass(i) == DivFP(FP, FP + stats[i].stability)
\* the relative velocity of a and b along n, for the tops ts
NormalSpeed(ts, a, b, n) == Dot(VSub(ts[a].vel, ts[b].vel), n)
\* what rounding adds to a relative normal velocity vn: the normal of a contact
\* is a unit vector to 1/FP in each component
RestitutionTolerance(vn) == FP \div 100 + vn \div 200

\* C22: when resolve_top_collisions has run, for the contact of the tick: if
\* the tops were approaching along its normal their velocities have changed by
\* -j * invMassA * n and +j * invMassB * n, j = (1 + e)(v_rel.n) / (invMassA +
\* invMassB), e in [0, 1], and the relative normal velocity is -e times what it
\* was; if not, velocities and positions are as they were; SpinHp is as it was.
C22_ImpulseOnApproach ==
  JustRan("resolve_top_collisions") =>
    /\ \A i \in TopIds : tops[i].hp = seen.before[i].hp
    /\ collisions = <<>> =>
         \A i \in TopIds : tops[i].vel = seen.before[i].vel /\ tops[i].pos = seen.before[i].pos
    /\ \A k \in DOMAIN collisions :
         LET c == collisions[k]
             was == seen.before
             vn == NormalSpeed(was, c.a, c.b, c.normal)
             e == IF top_collisions_restitution > FP THEN FP
                  ELSE IF top_collisions_restitution < 0 THEN 0
                  ELSE top_collisions_restitution
             j == DivFP(MulFP(FP + e, vn), InvMass(c.a) + InvMass(c.b))
         IN  IF vn > 0
             THEN /\ tops[c.a].vel =
                       VSub(was[c.a].vel, VScale(c.normal, MulFP(j, InvMass(c.a))))
                  /\ tops[c.b].vel =
                       VAdd(was[c.b].vel, VScale(c.normal, MulFP(j, InvMass(c.b))))
                  /\ Abs(NormalSpeed(tops, c.a, c.b, c.normal) + MulFP(e, vn))
                       <= RestitutionTolerance(vn)
                  /\ NormalSpeed(tops, c.a, c.b, c.normal) <= 0
             ELSE \A i \in {c.a, c.b} :
                    tops[i].vel = was[i].vel /\ tops[i].pos = was[i].pos

\* resolve_top_collisions has turned an approach of two tops of different
\* stability into a separation
C22_Witness ==
  /\ JustRan("resolve_top_collisions")
  /\ \E k \in DOMAIN collisions :
       LET c == collisions[k]
       IN  /\ NormalSpeed(seen.before, c.a, c.b, c.normal) > 0
           /\ NormalSpeed(tops, c.a, c.b, c.normal) < 0
           /\ InvMass(c.a) # InvMass(c.b)

\* how far top i is from where the system that ran last found it
Displacement(i) == Distance(tops[i].pos, seen.before[i].pos)

\* C23: when resolve_top_collisions has handled an approaching contact of two
\* overlapping tops with distinct centres, the tops are r_a + r_b apart, a has
\* moved overlap * invMassA / (invMassA + invMassB) and b overlap * invMassB /
\* (invMassA + invMassB), away from each other, and the top of higher stability
\* has moved no more than the other (distances to the rounding of the model).
C23_SeparationByInverseMass ==
  JustRan("resolve_top_collisions") =>
    \A k \in DOMAIN collisions :
      LET c == collisions[k]
          was == seen.before
          dist == Distance(was[c.a].pos, was[c.b].pos)
          min_dist == stats[c.a].radius + stats[c.b].radius
          overlap == min_dist - dist
          sum == InvMass(c.a) + InvMass(c.b)
      IN  /\ NormalSpeed(was, c.a, c.b, c.normal) > 0
          /\ 0 < dist /\ dist < min_dist
          => /\ Abs(Distance(tops[c.a].pos, tops[c.b].pos) - min_dist) <= PushTolerance
             /\ Abs(Displacement(c.a) - MulFP(overlap, DivFP(InvMass(c.a), sum)))
                  <= PushTolerance
             /\ Abs(Displacement(c.b) - MulFP(overlap, DivFP(InvMass(c.b), sum)))
                  <= PushTolerance
             /\ Distance(tops[c.a].pos, was[c.b].pos) >= dist
             /\ Distance(tops[c.b].pos, was[c.a].pos) >= dist
             /\ stats[c.a].stability > stats[c.b].stability =>
                  Displacement(c.a) <= Displacement(c.b)
             /\ stats[c.b].stability > stats[c.a].stability =>
                  Displacement(c.b) <= Displacement(c.a)

\* two overlapping tops of different stability have been moved apart, the
\* lighter one farther
C23_Witness ==
  /\ JustRan("resolve_top_collisions")
  /\ \E k \in DOMAIN collisions :
       LET c == collisions[k]
       IN  /\ stats[c.a].stability > stats[c.b].stability
           /\ 0 < Displacement(c.a)
           /\ Displacement(c.a) < Displacement(c.b)
           /\ Distance(seen.before[c.a].pos, seen.before[c.b].pos)
                < stats[c.a].radius + stats[c.b].radius - PushTolerance

\* C24: when integrate_physics has run, every top has moved by its velocity
\* times the multiplier of its speed boost times dt (to one unit of rounding
\* in each coordinate).
C24_BoostedIntegration ==
  JustRan("integrate_physics") =>
    \A i \in TopIds :
      LET was == seen.before[i]
          step == VScale(VScale(was.vel, was.sb_multiplier), dt)
      IN  /\ Abs(tops[i].pos[1] - (was.pos[1] + step[1])) <= 1
          /\ Abs(tops[i].pos[2] - (was.pos[2] + step[2])) <= 1

\* Intent.move_dir: none, along an axis, a diagonal that is not normalized
MoveDirs == {ZERO, <<FP, 0>>, <<0, -FP>>, <<-FP, FP>>}

\* C25: apply_intent leaves the velocity of a stunned top as it is, whatever
\* the movement intent; and when integrate_physics has run, a top that was
\* stunned has moved by its velocity times dt like any other.
C25_StunnedIsPushed ==
  \A i \in TopIds :
    /\ tops[i].stun_remaining > 0 =>
         \A d \in MoveDirs : apply_intent(tops[i], d, stats[i]).vel = tops[i].vel
    /\ JustRan("integrate_physics") /\ seen.before[i].stun_remaining > 0 =>
         tops[i].pos = VAdd(seen.before[i].pos, VScale(seen.before[i].vel, dt))

\* a stunned top that is moving has been moved by integrate_physics, and an
\* intent applied in spite of the stun would have changed its velocity
C25_Witness ==
  /\ JustRan("integrate_physics")
  /\ \E i \in TopIds :
       /\ seen.before[i].stun_remaining > 0
       /\ tops[i].stun_remaining > 0
       /\ tops[i].pos # seen.before[i].pos
       /\ \E d \in MoveDirs : apply_intent_stunned(tops[i], d, stats[i]).vel # tops[i].vel

\* the ApplyControl events of the tick that target top i
ControlWritten(i) ==
  LET Is(ev) == ev.type = "ApplyControl" /\ ev.dst = i IN Retain(events, Is)

\* C26: when apply_control_events has run, a top targeted by a Knockback of
\* a distance above 0 has another velocity than before, and the stun and slow
\* timers of a top targeted by nothing but Knockbacks are as they were.
C26_KnockbackIsImpulse ==
  JustRan("apply_control_events") =>
    \A i \in TopIds :
      LET evs == ControlWritten(i)
          pushes == {k \in DOMAIN evs :
                       /\ evs[k].control.kind = "Knockback"
                       /\ MulFP(evs[k].control.distance, stats[i].control_multiplier) > 0}
      IN  /\ pushes # {} => tops[i].vel # seen.before[i].vel
          /\ (\A k \in DOMAIN evs : evs[k].control.kind = "Knockback") =>
               ControlOf(tops[i]) = ControlOf(seen.before[i])

\* the SpawnProjectile events the system that ran last wrote for top i
ShotsWritten(i) ==
  LET Is(ev) == ev.type = "SpawnProjectile" /\ ev.src = i IN Retain(NewEvents, Is)

\* C27: when fire_ranged_weapons has run, a top that fired has written
\* max(1, burst_count) SpawnProjectile events; the directions of a burst go
\* from facing - spread_angle / 2 to facing + spread_angle / 2 in equal steps,
\* and the direction of a single projectile is the facing direction.
C27_BurstCentred ==
  JustRan("fire_ranged_weapons") =>
    \A i \in TopIds :
      LET shots == ShotsWritten(i)
          n == Len(shots)
      IN  n > 0 =>
            LET ranged == Unwrap(build[i].weapon.ranged)
                facing == tops[i].angle
                spread == ranged.spread_angle
            IN  /\ n = (IF ranged.burst_count > 1 THEN ranged.burst_count ELSE 1)
                /\ n = 1 => shots[1].direction = DirOf(facing)
                /\ n > 1 => \A k \in 1..n :
                     shots[k].direction =
                       DirOf(facing - RDiv(spread, 2) + RDiv(spread, n - 1) * (k - 1))

\* 1 / max(fire_rate * fire_rate_mult, 0.1) of the ranged weapon of top i
FirePeriod(i) ==
  LET rate == MulFP(Unwrap(build[i].weapon.ranged).fire_rate, stats[i].fire_rate_mult)
  IN  DivFP(FP, IF rate > FP \div 10 THEN rate ELSE FP \div 10)

\* C28: a top that has fired does not fire while the dt counted since is
\* below the period of its weapon, and fires in the first tick in which it is
\* not; a top without a ranged spec has written no SpawnProjectile event and
\* owns no projectile.
C28_FirePeriod ==
  \A i \in TopIds :
    /\ build[i].weapon.ranged = None =>
         /\ seen.shot[i].since = -1
         /\ \A k \in DOMAIN events :
              events[k].type = "SpawnProjectile" => events[k].src # i
         /\ \A k \in DOMAIN projectiles : projectiles[k].owner # i
    /\ build[i].weapon.ranged # None /\ seen.shot[i].since >= 0 =>
         /\ seen.shot[i].since < FirePeriod(i)
         /\ seen.shot[i].gap >= 0 =>
              /\ seen.shot[i].gap >= FirePeriod(i)
              /\ seen.shot[i].gap - dt < FirePeriod(i)

\* a top has fired for the second time, a period after the first
C28_Witness ==
  /\ JustRan("fire_ranged_weapons")
  /\ \E i \in TopIds :
       /\ ShotsWritten(i) # <<>>
       /\ seen.shot[i].since = 0
       /\ seen.shot[i].gap >= FirePeriod(i)
       /\ seen.shot[i].gap > dt

\* the Melee DealDamage and the ApplyControl events the system that ran last
\* wrote with attacker a as their source
MeleeWritten(a) ==
  LET Is(ev) == ev.type = "DealDamage" /\ ev.kind = "Melee" /\ ev.src = Some(a)
  IN  Retain(NewEvents, Is)
MeleeControlWritten(a) ==
  LET Is(ev) == ev.type = "ApplyControl" /\ ev.src = Some(a) IN Retain(NewEvents, Is)

\* target t is on the cooldown list attacker a had before the system ran
OnCooldownList(a, t) ==
  \E k \in DOMAIN seen.before[a].cooldowns : seen.before[a].cooldowns[k][1] = t

\* distance(a, t) <= r_a + hitbox_radius + r_t
WithinReach(a, t) ==
  Distance(tops[a].pos, tops[t].pos)
    <= stats[a].radius + Unwrap(build[a].weapon.melee).hitbox_radius + stats[t].radius

\* the angle between the facing direction of a and the direction to t is at
\* most hitbox_angle / 2: stated with the cosine, which decreases from 0 to pi
WithinArc(a, t) ==
  LET half == Unwrap(build[a].weapon.melee).hitbox_angle \div 2
      to_target == VSub(tops[t].pos, tops[a].pos)
      cosine == Dot(DirOf(tops[a].angle), VDivS(to_target, Length(to_target)))
  IN  /\ Length(to_target) > 0
      /\ half >= 0
      /\ half >= PI_FP \/ cosine >= Cos(half)

\* C29: when detect_melee_hits has run, an attacker has written a Melee
\* DealDamage for a target exactly if the target is another top, the attacker
\* has a melee spec, the target was not on its cooldown list, and the target
\* is within reach and within the arc; it has then written one DealDamage, and
\* one ApplyControl for the target if the weapon defines hit_control and none
\* if not; an attacker without a melee spec has written nothing.
C29_MeleeHitConditions ==
  JustRan("detect_melee_hits") =>
    \A a \in TopIds :
      LET hits == MeleeWritten(a)
          controls == MeleeControlWritten(a)
      IN  /\ \A k \in DOMAIN hits :
               /\ hits[k].dst \in TopIds \ {a}
               /\ build[a].weapon.melee # None
               /\ ~OnCooldownList(a, hits[k].dst)
               /\ WithinReach(a, hits[k].dst)
               /\ WithinArc(a, hits[k].dst)
          /\ \A t \in TopIds \ {a} :
               LET To(ev) == ev.dst = t
               IN  /\ Len(Retain(hits, To)) <= 1
                   /\ Len(Retain(controls, To)) =
                        (IF Retain(hits, To) # <<>>
                            /\ Unwrap(build[a].weapon.melee).hit_control # None
                         THEN 1 ELSE 0)
                   /\ (/\ build[a].weapon.melee # None
                       /\ ~OnCooldownList(a, t)
                       /\ WithinReach(a, t)
                       /\ WithinArc(a, t)) => Retain(hits, To) # <<>>
          /\ Len(controls) <= Len(hits)
          /\ build[a].weapon.melee = None => hits = <<>> /\ controls = <<>>


\* projectile p overlaps top i
Overlaps(p, i) == Distance(p.pos, tops[i].pos) < p.radius + stats[i].radius

\* C30: no Projectile DealDamage event has the top that fired as its
\* destination; and when detect_collisions has run, a projectile that does not
\* overlap the other top is named by no DespawnEntity event of the system,
\* whether it overlaps its owner or not.
C30_OwnerNeverHit ==
  /\ \A k \in DOMAIN events :
       (events[k].type = "DealDamage" /\ events[k].kind = "Projectile")
         => events[k].src # Some(events[k].dst)
  /\ JustRan("detect_collisions") =>
       \A k \in DOMAIN projectiles :
         LET p == projectiles[k]
             Names(ev) == ev.type = "DespawnEntity" /\ ev.entity = p.id
         IN  ~Overlaps(p, 3 - p.owner) => Retain(NewEvents, Names) = <<>>

\* detect_collisions has run while a projectile overlapped the top that
\* fired it, and the projectile is still there with no event about it
C30_Witness ==
  /\ JustRan("detect_collisions")
  /\ \E k \in DOMAIN projectiles :
       /\ Overlaps(projectiles[k], projectiles[k].owner)
       /\ ~Overlaps(projectiles[k], 3 - projectiles[k].owner)
       /\ \A j \in DOMAIN NewEvents :
            NewEvents[j].type = "DespawnEntity" => NewEvents[j].entity # projectiles[k].id

\* the entities that are no top: projectiles, obstacles, the despawned, and
\* the identity no entity has yet
NotTops ==
  {projectiles[k].id : k \in DOMAIN projectiles}
    \cup {obstacles[k].id : k \in DOMAIN obstacles}
    \cup {g.id : g \in seen.gone} \cup {next_entity}

\* DealDamage and ApplyControl events with such a destination
StrayDamage ==
  {DealDamage(src, dst, amount, "Projectile") :
     src \in {None, Some(1), Some(2)}, dst \in NotTops, amount \in {-FP, FP, 100 * FP}}
StrayControl ==
  {ApplyControl(None, dst, control) :
     dst \in NotTops, control \in {Stun(FP), Slow(2 * FP, FP \div 2), Knockback(FP)}}

\* seq with e put in after its first k elements
InsertAt(seq, k, e) == SubSeq(seq, 1, k) \o <<e>> \o Drop(seq, k)

\* C31: when the system is about to run, with a DealDamage or ApplyControl
\* event for an entity that is no top put anywhere among the events the tick
\* has queued, apply_damage_events leaves
\* every SpinHp, and apply_control_events every top, as without that event; and
\* such an event alone changes nothing.
C31_StrayEventDropped ==
  LET damage == Unread("apply_damage_events")
      control == Unread("apply_control_events")
      hp == [i \in TopIds |-> tops[i].hp]
  IN  /\ At("apply_damage_events") => \A e \in StrayDamage :
           /\ ApplyDamageEvent(hp, e) = hp
           /\ \A k \in 0..Len(damage) :
                ApplyDamageEvents(hp, InsertAt(damage, k, e)) = ApplyDamageEvents(hp, damage)
      /\ At("apply_control_events") => \A e \in StrayControl :
           /\ ApplyControlEvent(tops, e) = tops
           /\ \A k \in 0..Len(control) :
                ApplyControlEvents(tops, InsertAt(control, k, e)) = ApplyControlEvents(tops, control)

\* apply_damage_events is about to run on events that take SpinHp from a top
\* while a projectile is in flight: an event for the projectile put before
\* them does not keep them from being applied
C31_Witness ==
  /\ At("apply_damage_events")
  /\ projectiles # <<>>
  /\ LET damage == Unread("apply_damage_events")
         hp == [i \in TopIds |-> tops[i].hp]
         e == DealDamage(Some(1), projectiles[1].id, FP, "Projectile")
     IN  /\ e \in StrayDamage
         /\ ApplyDamageEvents(hp, damage) # hp
         /\ ApplyDamageEvents(hp, <<e>> \o damage) = ApplyDamageEvents(hp, damage)

\* position and velocity of a top
Motion(t) == <<t.pos, t.vel>>

\* the static obstacles on whose centre top t is, and those it overlaps
\* without being on their centre
CentredOn(t) ==
  {k \in DOMAIN obstacles : obstacles[k].static /\ obstacles[k].pos = t.pos}
OverlappedOffCentre(i, t) ==
  {k \in DOMAIN obstacles :
     /\ obstacles[k].static /\ obstacles[k].pos # t.pos
     /\ Distance(t.pos, obstacles[k].pos) < stats[i].radius + obstacles[k].radius}

\* C32: two tops at the same position give no CollisionMessage, no Collision
\* DealDamage and no change by resolve_top_collisions; a top at the centre of
\* the arena is left as it is by wall_reflection, which writes no event for
\* it; a top on the centre of a static obstacle (and overlapping no other) is
\* left as it is by static_obstacle_bounce.
C32_CoincidentSkipped ==
  /\ (JustRan("detect_collisions") /\ tops[1].pos = tops[2].pos) =>
       /\ Drop(collisions, cursor["resolve_top_collisions"]) = <<>>
       /\ \A i \in TopIds : Motion(tops[i]) = Motion(seen.before[i])
  /\ (JustRan("generate_collision_damage") /\ tops[1].pos = tops[2].pos) =>
       \A k \in DOMAIN NewEvents :
         ~(NewEvents[k].type = "DealDamage" /\ NewEvents[k].kind = "Collision")
  /\ (JustRan("resolve_top_collisions") /\ seen.before[1].pos = seen.before[2].pos) =>
       \A i \in TopIds : Motion(tops[i]) = Motion(seen.before[i])
  /\ JustRan("wall_reflection") =>
       \A i \in TopIds : seen.before[i].pos = ZERO =>
         /\ Motion(tops[i]) = Motion(seen.before[i])
         /\ \A k \in DOMAIN NewEvents : NewEvents[k].dst # i
  /\ JustRan("static_obstacle_bounce") =>
       \A i \in TopIds :
         (CentredOn(seen.before[i]) # {} /\ OverlappedOffCentre(i, seen.before[i]) = {})
           => Motion(tops[i]) = Motion(seen.before[i])

\* resolve_top_collisions has run with a moving top exactly where the other is
C32_Witness ==
  /\ JustRan("resolve_top_collisions")
  /\ seen.before[1].pos = seen.before[2].pos
  /\ seen.before[1].vel # seen.before[2].vel


\* v is a number between lo and hi
Within(v, lo, hi) == v # NaN /\ lo <= v /\ v <= hi
AtLeast(v, lo) == v # NaN /\ lo <= v

\* the bounds of the claim on one EffectiveStats
StatsInRange(e) ==
  /\ AtLeast(e.radius, FP \div 100)
  /\ Within(e.move_speed, 0, max_speed)
  /\ AtLeast(e.spin_hp_max, 0)
  /\ AtLeast(e.accel, 0)
  /\ AtLeast(e.stability, 0)
  /\ Within(e.damage_out_mult, 0, 10 * FP)
  /\ Within(e.damage_in_mult, 0, 10 * FP)
  /\ Within(e.fire_rate_mult, 0, 10 * FP)

\* the base stats of a top, and the same with "NaN" typed for one of them
TypedBases(top) ==
  {top, [top EXCEPT !.move_speed = NaN], [top EXCEPT !.spin_hp_max = NaN],
   [top EXCEPT !.radius = NaN], [top EXCEPT !.accel = NaN]}

\* C33: the effective stats of every top are those compute_effective gives for
\* its base stats and the merged modifiers of its parts, with radius >= 0.01,
\* 0 <= move_speed <= max_speed, spin_hp_max, accel and stability >= 0, and
\* the three multipliers in [0, 10]; and so are those compute_effective gives
\* for the same modifiers and any base stats.
C33_EffectiveStatsInRange ==
  \A i \in TopIds :
    /\ stats[i] = compute_effective(combined_modifiers(build[i]), build[i].top)
    /\ \A base \in TypedBases(build[i].top) :
         StatsInRange(compute_effective(combined_modifiers(build[i]), base))

\* control effects a melee weapon may define: two stuns, slows of the same
\* and of another duration with two ratios, a knockback
QueuedControls ==
  {Stun(FP), Stun(2 * FP), Slow(2 * FP, 180), Slow(2 * FP, 300), Slow(FP, 300),
   Knockback(FP)}

PartModifiers(b) ==
  <<ShaftToModifiers(b.shaft), ChassisToModifiers(b.chassis), ScrewToModifiers(b.screw)>>
\* three sets merged into ModifierSet::new() as Build::combined_modifiers does
MergeAll(sets) == merge(merge(merge(ModifierSetNew, sets[1]), sets[2]), sets[3])
\* the sums, products and multipliers of a set: all but the list of sources
Totals(set) == [set EXCEPT !.control_reduction_sources = <<>>]
\* modifier sets of parts with a factor of 0.5, 1, 2 or 10
FactorSets ==
  {[ModifierSetNew EXCEPT !.damage_out_mult = MultiplierNew(d), !.radius.mul = d,
                          !.spin_hp_max.add = d] :
     d \in {FP \div 2, FP, 2 * FP, 10 * FP}}

C36_SpinHpNeverIncreases ==
  [][phase = "Battle" =>
       \A i \in TopIds : /\ tops'[i].hp <= tops[i].hp
                         /\ tops[i].hp = 0 => tops'[i].hp = 0]_vars

\* apply_damage_events has applied a DealDamage event with a negative base
\* amount to a top and left its SpinHp as it was, below the maximum
C36_Witness ==
  /\ JustRan("apply_damage_events")
  /\ \E k \in DOMAIN events :
       /\ events[k].type = "DealDamage"
       /\ events[k].amount < 0
       /\ tops[events[k].dst].hp = seen.before[events[k].dst].hp
       /\ tops[events[k].dst].hp < stats[events[k].dst].spin_hp_max
       /\ tops[events[k].dst].hp > 0

\* C37: when a tick of the battle has run to its end, every top is within
\* arena radius - top radius of the centre of the arena.
C37_TopsInsideArena ==
  (pc = 0 /\ log = Schedule) =>
    \A i \in TopIds : Length(tops[i].pos) <= arena_r - stats[i].radius + PushTolerance

\* C38: once a top's SpinHp is 0 no further tick of the battle begins, and while
\* the phase is not Battle the run of FixedUpdate changes no top.
C38_DefeatTerminal ==
  [][/\ (pc = 0 /\ \E i \in TopIds : tops[i].hp <= 0) => pc' = 0
     /\ (phase # "Battle" /\ frame = "FixedUpdate") => tops' = tops]_vars

\* C38, second part alone: outside Battle a run of FixedUpdate changes no top.
C38_IdleOutsideBattle ==
  [][(phase # "Battle" /\ frame = "FixedUpdate") => tops' = tops]_vars

\* A tick of the battle has run to its end.
EndOfTick == pc = 0 /\ log = Schedule

\* The cooldown list of attacker a has at most one entry per target.
OnePerTarget(a) ==
  \A k, l \in DOMAIN tops[a].cooldowns :
    tops[a].cooldowns[k][1] = tops[a].cooldowns[l][1] => k = l

\* C39 as stated: after every tick each MeleeHitTracker has at most one entry per
\* target and every entry has remaining time > 0.
C39_TrackerEntriesLive ==
  EndOfTick =>
    \A a \in TopIds :
      /\ OnePerTarget(a)
      /\ \A k \in DOMAIN tops[a].cooldowns : tops[a].cooldowns[k][2] > 0

\* C39 amended: after every tick each MeleeHitTracker has at most one entry per
\* target, so no more entries than there are other tops, and every entry has
\* remaining time > 0 except the entry of a hit of this tick by a weapon whose
\* hit_cooldown is <= 0, which stays until the next tick_melee_trackers.
C39_TrackerBounded ==
  EndOfTick =>
    \A a \in TopIds :
      /\ OnePerTarget(a)
      /\ Len(tops[a].cooldowns) <= Cardinality(TopIds \ {a})
      /\ \A k \in DOMAIN tops[a].cooldowns :
           \/ tops[a].cooldowns[k][2] > 0
           \/ /\ seen.hit[a].since = 0
              /\ tops[a].cooldowns[k][2] = HitCooldown(a)

\* A weapon of hit_cooldown 0 has hit in two ticks running: the entry of the first
\* hit was removed and the tick ends with the entry of the second.
C39_Witness ==
  /\ EndOfTick
  /\ \E a \in TopIds :
       /\ Len(tops[a].cooldowns) = 1
       /\ tops[a].cooldowns[1][2] <= 0
       /\ seen.hit[a].count >= 2
       /\ seen.hit[a].since = 0
       /\ seen.hit[a].gap = dt
====
